---- MODULE Spec2Model ----
(***************************************************************************)
(* A model of the ComfyUI portable installer toolkit:                      *)
(*   - core/workflow_executor.py  WorkflowExecutor.execute and its         *)
(*     WebSocket progress feed,                                            *)
(*   - core/comfy_api.py          the REST/WebSocket client,               *)
(*   - core/model_downloader.py, core/custom_node_manager.py and the       *)
(*     portable-runtime managers (git, ffmpeg, python).                    *)
(* A run drives one component of the toolkit (variable component); the     *)
(* components share no state.                                              *)
(***************************************************************************)
EXTENDS Integers, Sequences, FiniteSets, TLC

\* ------------------------------------------------------------------ bounds
\* How many times execute is invoked on one WorkflowExecutor in a run.
MaxRuns == 1
\* The largest timeout handed to execute, in ticks of 0.5 s.
MaxTimeout == 2

\* The chunks (of 64 KB) a downloaded file has.
MaxChunks == 2
MaxCallbacks == 2
MaxWorkers == 2

\* wait_for_prompt's poll_interval (1.0 s) in ticks of 0.5 s.
POLL_INTERVAL == 2

\* ------------------------------------------------------------ Optional[T]
None == <<>>
Some(x) == <<x>>
IsNone(o) == o = <<>>
Get(o) == o[1]

VARIABLES
    component,          \* which part of the toolkit the run drives
    \* ---- WorkflowExecutor / ComfyAPI client
    pc,                 \* position of the caller's thread inside execute
    on_progress,        \* the callback given to execute: "none", "ok", "raises"
    use_websocket,      \* execute's use_websocket argument
    timeout,            \* execute's timeout argument, in ticks
    progress,           \* WorkflowExecutor._progress (its status field)
    ws_connected,       \* WorkflowExecutor._ws_connected
    api_ws,             \* ComfyAPI._ws: 0 is None, t is the app made by thread t
    threads,            \* listener threads made by connect_websocket
    WEBSOCKET_AVAILABLE,\* comfy_api.WEBSOCKET_AVAILABLE
    elapsed,            \* time.time() - start_time of the running wait, ticks
    queue,              \* server: ids of the prompts pending or running
    history,            \* server: prompt id -> Optional[history entry]
    response,           \* execute's local result: Optional answer of queue_prompt
    prompt_id,          \* execute's local prompt_id ("" before it is known)
    hist,               \* execute's local history (the wait's return value)
    result,             \* Optional: what the last execute gave its caller
    queueCalls,         \* POST /prompt requests made by the current execute
    runs,               \* execute invocations so far
    failure,            \* ghost: what went wrong in the current execute
    \* ---- ComfyAPI, one REST operation at a time
    REQUESTS_AVAILABLE, \* comfy_api.REQUESTS_AVAILABLE
    api_call,           \* Optional: the operation called and what HTTP does
    api_out,            \* Optional: what the operation gave its caller
    \* ---- ModelDownloader, CustomNodeManager, the portable-runtime managers
    HF_AVAILABLE,       \* model_downloader.HF_AVAILABLE
    DL_REQUESTS_AVAILABLE, \* model_downloader.REQUESTS_AVAILABLE
    files,              \* models_dir: path -> "absent", "partial", "complete"
    custom_nodes_dir,   \* whether ComfyUI/custom_nodes exists
    node_dirs,          \* custom_nodes: repo name -> "absent", "plain", "requirements"
    venv_created,       \* VenvManager.is_created
    portable,           \* which files of the portable runtimes exist
    op,                 \* the operation called last: [name, arg]
    opc,                \* where that operation is
    reports,            \* what it passed to progress_callback so far
    ret,                \* its return value: "running", "True", "False", "raised"
    attempts,           \* what it ran so far: downloads, clones, pulls, installs
    downloaded,         \* _download_direct: chunks written so far
    total_size,         \* _download_direct: content-length in chunks, 0 unknown
    \* ---- ComfyAPI.execute_workflow and the WebSocket callbacks
    wait,               \* execute_workflow's wait argument
    _ws_callbacks,      \* ComfyAPI._ws_callbacks: event type -> callbacks
    event,              \* Optional: the on/off call or message handled last
    invoked,            \* what the last message invoked, in order
    \* ---- download_multiple and install_multiple
    batch,              \* the models or nodes given to the call
    max_workers,        \* download_multiple's max_workers
    tpc,                \* index -> where the download_model of that task is
    tseen,              \* index -> nested files its cleanup has looked at
    tmove,              \* index -> Optional file its cleanup is about to move
    tenv,               \* ghost: index -> what the download of the task did
    tdl,                \* index -> chunks its direct download has written
    tret,               \* index -> Optional value of its future
    results,            \* the results dict: key -> Optional success value
    bpc,                \* where download_multiple / install_multiple is
    \* ---- InstallTab: Purge and the server
    tab_pc,             \* where the Tk main thread is inside _purge_comfyui
    comfy_installed,    \* ComfyInstaller.is_installed
    server_running,     \* ServerManager.is_running: the server process lives
    stop_worker,        \* the run_async worker of do_stop
    purge_worker,       \* the run_async worker of do_purge
    purge_req,          \* ghost: Optional is_running when Purge was requested
    purge_saw           \* ghost: Optional state purge_comfyui started in

uiVars == <<tab_pc, comfy_installed, server_running, stop_worker,
           purge_worker, purge_req, purge_saw>>

execVars == <<pc, on_progress, use_websocket, timeout, progress, ws_connected,
              api_ws, threads, WEBSOCKET_AVAILABLE, elapsed, queue, history,
              response, prompt_id, hist, result, queueCalls, runs, failure>>

clientVars == <<REQUESTS_AVAILABLE, api_call, api_out>>

installVars == <<HF_AVAILABLE, DL_REQUESTS_AVAILABLE, files, custom_nodes_dir,
                 node_dirs, venv_created, portable, op, opc, reports, ret,
                 attempts, downloaded, total_size>>

apiVars == <<wait, _ws_callbacks, event, invoked>>

poolVars == <<batch, max_workers, tpc, tseen, tmove, tenv, tdl, tret, results,
             bpc>>

vars == <<component, uiVars, execVars, clientVars, apiVars, poolVars, installVars>>

\* ------------------------------------------------------- server-side data
\* History entries as the server returns them: status.status_str and the
\* outputs of each node, in the order of the outputs dict.  A node output
\* either has an "images" key or not.
NodeOutput(node, has, imgs) == [node |-> node, has_images |-> has, images |-> imgs]

EntryOk == [status_str |-> "success",
            outputs |-> << NodeOutput("9", TRUE, <<"a.png", "b.png">>),
                           NodeOutput("12", FALSE, <<>>),
                           NodeOutput("15", TRUE, <<"c.png">>) >>]
EntryEmpty == [status_str |-> "success", outputs |-> <<>>]
EntryError == [status_str |-> "error", outputs |-> <<>>]
EntryForeign == [status_str |-> "success",
                 outputs |-> << NodeOutput("3", TRUE, <<"other.png">>) >>]

HistoryEntries == {EntryOk, EntryEmpty, EntryError}

\* The lists of workflows given to execute_batch, and the executes one
\* executor is asked for at most: those of the longest list, or MaxRuns.
WorkflowLists == { <<"w1", "w2">>, <<"w2">> }
MaxExecutes ==
    LET longest == CHOOSE n \in {Len(ws) : ws \in WorkflowLists} :
                       \A ws \in WorkflowLists : Len(ws) <= n
    IN  IF MaxRuns < longest THEN longest ELSE MaxRuns

\* The id the server gives the k-th prompt queued by this client; "0" is a
\* prompt queued by somebody else, whose entry is in the history already.
PromptIdOf(k) == ToString(k)
ForeignPrompt == PromptIdOf(0)
PromptIds == {PromptIdOf(k) : k \in 0..MaxExecutes}

Threads == 1..MaxExecutes

\* ------------------------------------------------------------- ComfyAPI
\* GET /history/{prompt_id}: the server answers with a dict that holds the
\* entry under its id, or with an empty dict.
HistoryResponse(h, pid) ==
    [p \in {q \in {pid} \cap DOMAIN h : ~IsNone(h[q])} |-> Get(h[p])]

\* A lookup that takes whatever entry the history holds.
get_any_history_item(h, pid) ==
    IF \E q \in DOMAIN h : ~IsNone(h[q])
    THEN h[CHOOSE q \in DOMAIN h : ~IsNone(h[q])] ELSE None

\* ComfyAPI.get_history_item: result.get(prompt_id) if result else None
get_history_item(h, pid) ==
    LET got == HistoryResponse(h, pid)
    IN  IF DOMAIN got = {} THEN None
        ELSE IF pid \in DOMAIN got THEN Some(got[pid]) ELSE None

\* ComfyAPI.get_output_images: the images of every node output that has an
\* "images" key, in the order of the outputs dict.
RECURSIVE ImagesOf(_)
ImagesOf(outputs) ==
    IF outputs = <<>> THEN <<>>
    ELSE (IF Head(outputs).has_images THEN Head(outputs).images ELSE <<>>)
         \o ImagesOf(Tail(outputs))

\* A get_output_images that stops after the first node with images.
RECURSIVE FirstImagesOf(_)
FirstImagesOf(outputs) ==
    IF outputs = <<>> THEN <<>>
    ELSE IF Head(outputs).has_images THEN Head(outputs).images
    ELSE FirstImagesOf(Tail(outputs))

first_output_images(history_entry) == FirstImagesOf(history_entry.outputs)

get_output_images(history_entry) == ImagesOf(history_entry.outputs)

\* The answers POST /prompt can give (queue_prompt returns _post's value):
\* None for an empty body, else a dict with or without prompt_id/node_errors.
QueueResponses(id) ==
    { None,
      Some([prompt_id |-> "", node_errors |-> FALSE]),
      Some([prompt_id |-> id, node_errors |-> TRUE]),
      Some([prompt_id |-> id, node_errors |-> FALSE]) }

\* ----------------------------------------------------- WorkflowExecutor
\* ExecutionProgress: the status field; no operation reads the other fields.
ExecutionProgress(status) == [status |-> status]

ExecutionResult(success, pid, outputs, images, error) ==
    [raised |-> FALSE, success |-> success, prompt_id |-> pid,
     outputs |-> outputs, images |-> images, error |-> error]

\* An exception that leaves execute instead of a result.
Raised(e) ==
    [raised |-> TRUE, success |-> FALSE, prompt_id |-> "",
     outputs |-> <<>>, images |-> <<>>, error |-> Some(e)]

\* WorkflowExecutor._update_progress, the status field: a falsy argument
\* leaves it alone ("" stands for status=None).
_update_progress(p, status) ==
    [status |-> IF status # "" THEN status ELSE p.status]

\* WorkflowExecutor._update_progress, the notification: whether an exception
\* of the callback leaves _update_progress (try/except Exception: pass).
CallbackUncaught(cb) == cb = "raises"

CallbackEscapes(cb) == FALSE

\* execute's handler, except Exception as e: a failed result carrying str(e).
ExceptResult(e) == ExecutionResult(FALSE, "", <<>>, <<>>, Some(e))

\* execute after queue_prompt returned the answer r: the early failure result,
\* or None when execution goes on.  r.get on None raises.
AfterQueue(r) ==
    IF IsNone(r) THEN Some(ExceptResult("AttributeError"))
    ELSE IF Get(r).prompt_id = ""
         THEN Some(ExecutionResult(FALSE, "", <<>>, <<>>,
                                   Some("Failed to queue workflow")))
    ELSE IF Get(r).node_errors
         THEN Some(ExecutionResult(FALSE, Get(r).prompt_id, <<>>, <<>>,
                                   Some("Node errors")))
    ELSE None

\* execute after the wait returned `h`.
AfterWaitResult(pid, h) ==
    IF IsNone(h)
    THEN ExecutionResult(FALSE, pid, <<>>, <<>>, Some("Execution timed out"))
    ELSE IF Get(h).status_str = "error"
         THEN ExecutionResult(FALSE, pid, <<>>, <<>>, Some("messages"))
    ELSE ExecutionResult(TRUE, pid, Get(h).outputs,
                         get_output_images(Get(h)), None)

\* _connect_ws.on_message: the progress after a message (type, argument).
on_message(p, m) ==
    IF m[1] = "executing"
    THEN IF m[2] # "" THEN _update_progress(p, "")
         ELSE _update_progress(p, "completed")
    ELSE _update_progress(p, "")

\* _connect_ws.on_error
on_error(p) == _update_progress(p, "error")

\* _wait_with_ws: the statuses that end the wait with one last lookup.
WsWaitOver(status) == status = "completed" \/ status \in {"error", "failed"}

\* Messages the server sends on the WebSocket: (type, argument).
WsMessages ==
    { <<"status", "0">>, <<"status", "1">>, <<"executing", "9">>,
      <<"executing", "">>, <<"progress", "1">>, <<"executed", "9">> }

\* -------------------------------------------------- execute, step by step
\* The executor and its ComfyAPI after construction.
ExecStart(websocket_available) ==
    /\ pc = "idle"
    /\ on_progress = "none"
    /\ use_websocket = FALSE
    /\ timeout = 0
    /\ progress = ExecutionProgress("pending")
    /\ ws_connected = FALSE
    /\ api_ws = 0
    /\ threads = [t \in Threads |-> "none"]
    /\ WEBSOCKET_AVAILABLE = websocket_available
    /\ elapsed = 0
    /\ queue = {}
    /\ history = [p \in PromptIds |->
                    IF p = ForeignPrompt THEN Some(EntryForeign) ELSE None]
    /\ response = None
    /\ prompt_id = ""
    /\ hist = None
    /\ result = None
    /\ queueCalls = 0
    /\ runs = 0
    /\ failure = "none"

\* execute is running for its own caller or for execute_batch.
InExecute == component \in {"executor", "batch_exec"}

\* An exception raised inside execute's try block: the handler's result,
\* then the finally clause.  Raised inside execute_workflow it leaves it.
Except(e, what) ==
    /\ result' = Some(IF InExecute THEN ExceptResult(e) ELSE Raised(e))
    /\ failure' = what
    /\ pc' = IF InExecute THEN "finally" ELSE "done"

\* execute is called: the callback is stored and the progress reset.
Execute(cb, uw, to) ==
    /\ component = "executor"
    /\ pc \in {"idle", "done"}
    /\ runs < MaxRuns
    /\ runs' = runs + 1
    /\ on_progress' = cb
    /\ use_websocket' = uw
    /\ timeout' = to
    /\ progress' = ExecutionProgress("pending")
    /\ response' = None
    /\ prompt_id' = ""
    /\ hist' = None
    /\ result' = None
    /\ queueCalls' = 0
    /\ elapsed' = 0
    /\ failure' = "none"
    /\ pc' = IF uw THEN "connect_ws" ELSE "report_queued"
    /\ UNCHANGED <<component, uiVars, clientVars, installVars, apiVars, poolVars, ws_connected, api_ws, threads,
                   WEBSOCKET_AVAILABLE, queue, history>>

\* _connect_ws with ComfyAPI.connect_websocket: without the websocket
\* library ImportError is raised and caught; else a daemon thread is started.
ConnectWs ==
    /\ InExecute
    /\ pc = "connect_ws"
    /\ IF WEBSOCKET_AVAILABLE
       THEN /\ threads' = [threads EXCEPT ![runs] = "started"]
            /\ ws_connected' = TRUE
       ELSE /\ ws_connected' = FALSE
            /\ UNCHANGED threads
    /\ pc' = "report_queued"
    /\ UNCHANGED <<component, uiVars, clientVars, installVars, apiVars, poolVars, on_progress, use_websocket, timeout, progress,
                   api_ws, WEBSOCKET_AVAILABLE, elapsed, queue, history,
                   response, prompt_id, hist, result, queueCalls, runs, failure>>

\* _update_progress(status="queued", ...)
ReportQueued ==
    /\ InExecute
    /\ pc = "report_queued"
    /\ progress' = _update_progress(progress, "queued")
    /\ IF CallbackEscapes(on_progress)
       THEN Except("callback", "callback")
       ELSE /\ pc' = "queue_prompt"
            /\ UNCHANGED <<result, failure>>
    /\ UNCHANGED <<component, uiVars, clientVars, installVars, apiVars, poolVars, on_progress, use_websocket, timeout,
                   ws_connected, api_ws, threads, WEBSOCKET_AVAILABLE, elapsed,
                   queue, history, response, prompt_id, hist, queueCalls, runs>>

\* api.queue_prompt and the checks of its answer.  The request fails
\* (ConnectionError) or the server answers; a prompt the server gave an id
\* is in its queue.
QueuePrompt(ok, r) ==
    /\ InExecute
    /\ pc = "queue_prompt"
    /\ queueCalls' = queueCalls + 1
    /\ IF ~ok
       THEN /\ Except("ConnectionError", "queue")
            /\ UNCHANGED <<response, prompt_id, queue>>
       ELSE /\ response' = r
            /\ prompt_id' = IF IsNone(r) THEN "" ELSE Get(r).prompt_id
            /\ queue' = IF prompt_id' # "" THEN queue \cup {prompt_id'} ELSE queue
            /\ IF IsNone(AfterQueue(r))
               THEN /\ pc' = "report_running"
                    /\ UNCHANGED <<result, failure>>
               ELSE /\ result' = AfterQueue(r)
                    /\ failure' = "queue"
                    /\ pc' = "finally"
    /\ UNCHANGED <<component, uiVars, clientVars, installVars, apiVars, poolVars, on_progress, use_websocket, timeout, progress,
                   ws_connected, api_ws, threads, WEBSOCKET_AVAILABLE, elapsed,
                   history, hist, runs>>

\* _update_progress(status="running", ...), then the wait starts.
ReportRunning ==
    /\ InExecute
    /\ pc = "report_running"
    /\ progress' = _update_progress(progress, "running")
    /\ elapsed' = 0
    /\ IF CallbackEscapes(on_progress)
       THEN Except("callback", "callback")
       ELSE /\ pc' = IF use_websocket THEN "ws_check" ELSE "poll_check"
            /\ UNCHANGED <<result, failure>>
    /\ UNCHANGED <<component, uiVars, clientVars, installVars, apiVars, poolVars, on_progress, use_websocket, timeout,
                   ws_connected, api_ws, threads, WEBSOCKET_AVAILABLE,
                   queue, history, response, prompt_id, hist, queueCalls, runs>>

\* What a wait step leaves alone.
WaitFrame ==
    UNCHANGED <<component, uiVars, clientVars, installVars, apiVars, poolVars, on_progress, use_websocket, timeout, progress,
                ws_connected, api_ws, threads, WEBSOCKET_AVAILABLE, queue,
                history, response, prompt_id, queueCalls, runs>>

\* The wait returns h to execute or to execute_workflow.
WaitReturns(h) ==
    /\ hist' = h
    /\ pc' = IF InExecute THEN "after_wait" ELSE "ew_after_wait"
    /\ UNCHANGED <<result, failure, elapsed>>

\* _wait_with_ws: the loop condition and the two status checks.
WsWaitCheck ==
    /\ InExecute
    /\ pc = "ws_check"
    /\ IF ~(elapsed < timeout)
       THEN WaitReturns(None)
       ELSE /\ pc' = IF WsWaitOver(progress.status)
                     THEN "ws_get_final" ELSE "ws_get_poll"
            /\ UNCHANGED <<hist, result, failure, elapsed>>
    /\ WaitFrame

\* _wait_with_ws: status completed, error or failed: whatever
\* get_history_item gives is returned.
WsGetFinal(ok) ==
    /\ InExecute
    /\ pc = "ws_get_final"
    /\ IF ok
       THEN WaitReturns(get_history_item(history, prompt_id))
       ELSE /\ Except("ConnectionError", "wait")
            /\ UNCHANGED <<hist, elapsed>>
    /\ WaitFrame

\* _wait_with_ws: the history lookup of an iteration, then sleep(0.5).
WsGetPoll(ok) ==
    /\ InExecute
    /\ pc = "ws_get_poll"
    /\ IF ~ok
       THEN /\ Except("ConnectionError", "wait")
            /\ UNCHANGED <<hist, elapsed>>
       ELSE IF ~IsNone(get_history_item(history, prompt_id))
       THEN WaitReturns(get_history_item(history, prompt_id))
       ELSE /\ elapsed' = elapsed + 1
            /\ pc' = "ws_check"
            /\ UNCHANGED <<hist, result, failure>>
    /\ WaitFrame

\* ComfyAPI.wait_for_prompt: the loop condition.
PollCheck ==
    /\ component \in {"executor", "workflow"}
    /\ pc = "poll_check"
    /\ IF ~(elapsed < timeout)
       THEN WaitReturns(None)
       ELSE /\ pc' = "poll_get"
            /\ UNCHANGED <<hist, result, failure, elapsed>>
    /\ WaitFrame

\* wait_for_prompt: the history lookup that opens an iteration.
PollGet(ok) ==
    /\ component \in {"executor", "workflow"}
    /\ pc = "poll_get"
    /\ IF ~ok
       THEN /\ Except("ConnectionError", "wait")
            /\ UNCHANGED <<hist, elapsed>>
       ELSE IF ~IsNone(get_history_item(history, prompt_id))
       THEN WaitReturns(get_history_item(history, prompt_id))
       ELSE /\ pc' = "poll_queue"
            /\ UNCHANGED <<hist, result, failure, elapsed>>
    /\ WaitFrame

\* wait_for_prompt: get_queue; a prompt that is not queued gets a sleep and a
\* second lookup, a queued one the sleep that ends the iteration.
PollQueue(ok) ==
    /\ component \in {"executor", "workflow"}
    /\ pc = "poll_queue"
    /\ IF ~ok
       THEN /\ Except("ConnectionError", "wait")
            /\ UNCHANGED <<hist, elapsed>>
       ELSE /\ elapsed' = elapsed + POLL_INTERVAL
            /\ pc' = IF prompt_id \in queue THEN "poll_check" ELSE "poll_get2"
            /\ UNCHANGED <<hist, result, failure>>
    /\ WaitFrame

\* wait_for_prompt: the second lookup, then the sleep that ends the iteration.
PollGet2(ok) ==
    /\ component \in {"executor", "workflow"}
    /\ pc = "poll_get2"
    /\ IF ~ok
       THEN /\ Except("ConnectionError", "wait")
            /\ UNCHANGED <<hist, elapsed>>
       ELSE IF ~IsNone(get_history_item(history, prompt_id))
       THEN WaitReturns(get_history_item(history, prompt_id))
       ELSE /\ elapsed' = elapsed + POLL_INTERVAL
            /\ pc' = "poll_check"
            /\ UNCHANGED <<hist, result, failure>>
    /\ WaitFrame

\* execute after the wait: the result, and on success the "completed" report.
AfterWait ==
    /\ InExecute
    /\ pc = "after_wait"
    /\ LET r == AfterWaitResult(prompt_id, hist)
       IN  /\ progress' = IF r.success
                          THEN _update_progress(progress, "completed")
                          ELSE progress
           /\ IF r.success /\ CallbackEscapes(on_progress)
              THEN Except("callback", "callback")
              ELSE /\ result' = Some(r)
                   /\ failure' = IF IsNone(hist) THEN "wait"
                                 ELSE IF Get(hist).status_str = "error"
                                      THEN "execution" ELSE failure
                   /\ pc' = "finally"
    /\ UNCHANGED <<component, uiVars, clientVars, installVars, apiVars, poolVars, on_progress, use_websocket, timeout,
                   ws_connected, api_ws, threads, WEBSOCKET_AVAILABLE, elapsed,
                   queue, history, response, prompt_id, hist, queueCalls, runs>>

\* ComfyAPI.disconnect_websocket: if self._ws: close it, forget it.
disconnect_websocket ==
    /\ threads' = IF api_ws # 0 THEN [threads EXCEPT ![api_ws] = "closed"]
                  ELSE threads
    /\ api_ws' = 0

\* The finally clause (_disconnect_ws), then execute returns.
Finally ==
    /\ InExecute
    /\ pc = "finally"
    /\ IF use_websocket /\ ws_connected
       THEN /\ disconnect_websocket
            /\ ws_connected' = FALSE
       ELSE UNCHANGED <<threads, api_ws, ws_connected>>
    /\ pc' = "done"
    /\ UNCHANGED <<component, uiVars, clientVars, installVars, apiVars, poolVars, on_progress, use_websocket, timeout, progress,
                   WEBSOCKET_AVAILABLE, elapsed, queue, history, response, prompt_id,
                   hist, result, queueCalls, runs, failure>>

\* ------------------------------------------------- the listener threads
ListenerFrame ==
    UNCHANGED <<component, uiVars, clientVars, installVars, apiVars, poolVars, pc, on_progress, use_websocket, timeout,
                ws_connected, WEBSOCKET_AVAILABLE, elapsed, queue, history,
                response, prompt_id, hist, result, queueCalls, runs, failure>>

\* connect_websocket._run, first statement: self._ws = WebSocketApp(...)
ThreadCreateApp(t) ==
    /\ InExecute
    /\ threads[t] = "started"
    /\ api_ws' = t
    /\ threads' = [threads EXCEPT ![t] = "app"]
    /\ UNCHANGED progress
    /\ ListenerFrame

\* _run, run_forever: the connection is made ...
ThreadConnect(t) ==
    /\ InExecute
    /\ threads[t] = "app"
    /\ threads' = [threads EXCEPT ![t] = "connected"]
    /\ UNCHANGED <<api_ws, progress>>
    /\ ListenerFrame

\* ... or fails, or breaks later: on_error is called and run_forever ends.
ThreadError(t) ==
    /\ InExecute
    /\ threads[t] \in {"app", "connected"}
    /\ threads' = [threads EXCEPT ![t] = "closed"]
    /\ progress' = on_error(progress)
    /\ UNCHANGED api_ws
    /\ ListenerFrame

\* A message arrives on a connected listener: _on_message, on_message.
WsMessage(t, m) ==
    /\ InExecute
    /\ threads[t] = "connected"
    /\ progress' = on_message(progress, m)
    /\ UNCHANGED <<api_ws, threads>>
    /\ ListenerFrame

\* ------------------------------------------------------------ the server
ServerFrame ==
    UNCHANGED <<component, uiVars, clientVars, installVars, apiVars, poolVars, pc, on_progress, use_websocket, timeout, progress,
                ws_connected, api_ws, threads, WEBSOCKET_AVAILABLE, elapsed,
                response, prompt_id, hist, result, queueCalls, runs, failure>>

\* A queued prompt finishes: it leaves the queue, its entry is in the history.
ServerFinish(p, e) ==
    /\ component \in {"executor", "workflow", "batch_exec"}
    /\ p \in queue
    /\ queue' = queue \ {p}
    /\ history' = [history EXCEPT ![p] = Some(e)]
    /\ ServerFrame

\* A queued prompt is deleted from the queue (POST /queue): no entry.
ServerDrop(p) ==
    /\ component \in {"executor", "workflow", "batch_exec"}
    /\ p \in queue
    /\ queue' = queue \ {p}
    /\ UNCHANGED history
    /\ ServerFrame

\* ------------------------------------------- ComfyAPI.execute_workflow
\* A return that loses its value.
NoValue(v) == [raised |-> FALSE, value |-> None]

\* What a ComfyAPI operation returned to its caller.
Value(v) == [raised |-> FALSE, value |-> v]

\* execute_workflow is called.
ExecuteWorkflow(w, to) ==
    /\ component = "workflow"
    /\ pc \in {"idle", "done"}
    /\ runs < MaxRuns
    /\ runs' = runs + 1
    /\ wait' = w
    /\ timeout' = to
    /\ response' = None
    /\ prompt_id' = ""
    /\ hist' = None
    /\ result' = None
    /\ queueCalls' = 0
    /\ elapsed' = 0
    /\ failure' = "none"
    /\ pc' = "ew_queue"
    /\ UNCHANGED <<component, uiVars, clientVars, installVars, poolVars, _ws_callbacks,
                   event, invoked, on_progress, use_websocket, progress,
                   ws_connected, api_ws, threads, WEBSOCKET_AVAILABLE, queue,
                   history>>

\* execute_workflow: queue_prompt and result.get("prompt_id"); without wait
\* the answer is returned, else wait_for_prompt starts.
EwQueue(ok, r) ==
    /\ component = "workflow"
    /\ pc = "ew_queue"
    /\ queueCalls' = queueCalls + 1
    /\ IF ~ok
       THEN /\ Except("ConnectionError", "queue")
            /\ UNCHANGED <<response, prompt_id, queue>>
       ELSE /\ response' = r
            /\ prompt_id' = IF IsNone(r) THEN "" ELSE Get(r).prompt_id
            /\ queue' = IF prompt_id' # "" THEN queue \cup {prompt_id'} ELSE queue
            /\ IF IsNone(r)
               THEN Except("AttributeError", "queue")
               ELSE IF ~wait
               THEN /\ result' = Some(Value(r))
                    /\ pc' = "done"
                    /\ UNCHANGED failure
               ELSE /\ pc' = "poll_check"
                    /\ UNCHANGED <<result, failure>>
    /\ UNCHANGED <<component, uiVars, clientVars, installVars, apiVars, poolVars,
                   on_progress, use_websocket, timeout, progress, ws_connected,
                   api_ws, threads, WEBSOCKET_AVAILABLE, elapsed, history, hist,
                   runs>>

\* execute_workflow after wait_for_prompt: TimeoutError for None, else the
\* history entry.
EwAfterWait ==
    /\ component = "workflow"
    /\ pc = "ew_after_wait"
    /\ result' = Some(IF IsNone(hist) THEN Raised("TimeoutError")
                      ELSE Value(hist))
    /\ failure' = IF IsNone(hist) THEN "wait" ELSE failure
    /\ pc' = "done"
    /\ UNCHANGED <<component, uiVars, clientVars, installVars, apiVars, poolVars,
                   on_progress, use_websocket, timeout, progress, ws_connected,
                   api_ws, threads, WEBSOCKET_AVAILABLE, elapsed, queue, history,
                   response, prompt_id, hist, queueCalls, runs>>

\* wait_for_prompt, whoever called it.
NextPoll ==
    \/ PollCheck
    \/ \E ok \in BOOLEAN : PollGet(ok)
    \/ \E ok \in BOOLEAN : PollQueue(ok)
    \/ \E ok \in BOOLEAN : PollGet2(ok)

NextServer ==
    \/ \E p \in PromptIds, e \in HistoryEntries : ServerFinish(p, e)
    \/ \E p \in PromptIds : ServerDrop(p)

Callbacks == {"none", "ok", "raises"}
Timeouts == 0..MaxTimeout

NextWorkflow ==
    \/ \E w \in BOOLEAN, to \in Timeouts : ExecuteWorkflow(w, to)
    \/ \E ok \in BOOLEAN, r \in QueueResponses(PromptIdOf(runs)) : EwQueue(ok, r)
    \/ EwAfterWait

\* WorkflowExecutor.cancel, called by another thread than execute's:
\* api.interrupt raises out of cancel, or the status becomes "cancelled".
Cancel(ok) ==
    /\ component = "executor"
    /\ progress' = IF ok THEN _update_progress(progress, "cancelled") ELSE progress
    /\ UNCHANGED <<api_ws, threads>>
    /\ ListenerFrame

NextExec ==
    \/ \E cb \in Callbacks, uw \in BOOLEAN, to \in Timeouts : Execute(cb, uw, to)
    \/ ConnectWs
    \/ ReportQueued
    \/ \E ok \in BOOLEAN, r \in QueueResponses(PromptIdOf(runs)) : QueuePrompt(ok, r)
    \/ ReportRunning
    \/ WsWaitCheck
    \/ \E ok \in BOOLEAN : WsGetFinal(ok)
    \/ \E ok \in BOOLEAN : WsGetPoll(ok)
    \/ AfterWait
    \/ Finally
    \/ \E t \in Threads : ThreadCreateApp(t)
    \/ \E t \in Threads : ThreadConnect(t)
    \/ \E t \in Threads : ThreadError(t)
    \/ \E t \in Threads, m \in WsMessages : WsMessage(t, m)
    \/ \E ok \in BOOLEAN : Cancel(ok)

\* ------------------------------------------- BatchExecutor.execute_batch
\* The on_progress given to execute_batch (op.arg) returns or raises.
BatchCallback == Get(op).arg

BatchExecFrame ==
    UNCHANGED <<component, uiVars, clientVars, apiVars, HF_AVAILABLE,
                DL_REQUESTS_AVAILABLE, files, custom_nodes_dir, node_dirs,
                venv_created, portable, opc, ret, attempts, downloaded,
                total_size, max_workers, tpc, tseen, tmove, tenv, tdl, results>>

\* execute_batch is called: results = [], total = len(workflows).
ExecuteBatch(workflows, cb, to) ==
    /\ component = "batch_exec"
    /\ bpc = "idle"
    /\ batch' = workflows
    /\ op' = Some([name |-> "execute_batch", arg |-> cb])
    /\ timeout' = to
    /\ tret' = <<>>
    /\ reports' = <<>>
    /\ bpc' = "running"
    /\ UNCHANGED <<pc, on_progress, use_websocket, progress, ws_connected,
                   api_ws, threads, WEBSOCKET_AVAILABLE, elapsed, queue,
                   history, response, prompt_id, hist, result, queueCalls,
                   runs, failure>>
    /\ BatchExecFrame

\* The loop of execute_batch calls self.executor.execute(workflow,
\* timeout=timeout_per_workflow, use_websocket=True) for the next workflow.
BatchExecute ==
    /\ component = "batch_exec"
    /\ bpc = "running"
    /\ pc \in {"idle", "done"}
    /\ runs = Len(tret)
    /\ runs < Len(batch)
    /\ runs' = runs + 1
    /\ on_progress' = "none"
    /\ use_websocket' = TRUE
    /\ progress' = ExecutionProgress("pending")
    /\ response' = None
    /\ prompt_id' = ""
    /\ hist' = None
    /\ result' = None
    /\ queueCalls' = 0
    /\ elapsed' = 0
    /\ failure' = "none"
    /\ pc' = "connect_ws"
    /\ UNCHANGED <<timeout, ws_connected, api_ws, threads, WEBSOCKET_AVAILABLE,
                   queue, history, batch, op, tret, reports, bpc>>
    /\ BatchExecFrame

\* on_progress(i, total, result) with the index counted from 0.
ProgressCallFromZero(i, total, r) == <<i - 1, total, r>>

\* on_progress(i + 1, total, result), i + 1 being the number of executes.
ProgressCall(i, total, r) == <<i, total, r>>

\* execute has returned: results.append(result), then on_progress(i + 1,
\* total, result) if there is one; an on_progress that raises ends
\* execute_batch with its exception.
BatchAppend ==
    /\ component = "batch_exec"
    /\ bpc = "running"
    /\ pc = "done"
    /\ runs = Len(tret) + 1
    /\ tret' = Append(tret, Get(result))
    /\ reports' = IF BatchCallback = "none" THEN reports
                  ELSE Append(reports, ProgressCall(runs, Len(batch), Get(result)))
    /\ bpc' = IF BatchCallback = "raises" THEN "raised" ELSE "running"
    /\ UNCHANGED <<execVars, batch, op>>
    /\ BatchExecFrame

\* The loop is over: return results.
BatchReturn ==
    /\ component = "batch_exec"
    /\ bpc = "running"
    /\ Len(tret) = Len(batch)
    /\ bpc' = "returned"
    /\ UNCHANGED <<execVars, batch, op, tret, reports>>
    /\ BatchExecFrame

NextBatchExec ==
    \/ \E ws \in WorkflowLists, cb \in Callbacks : ExecuteBatch(ws, cb, MaxTimeout)
    \/ BatchExecute
    \/ BatchAppend
    \/ BatchReturn

\* ------------------------------------------- ComfyAPI, REST operations
\* The operations by the helper that issues their request.
GetOps ==
    {"get_queue", "get_queue_remaining", "get_history", "get_history_item",
     "get_jobs", "get_job", "get_model_folders", "get_models",
     "get_model_metadata", "get_embeddings", "get_object_info",
     "get_node_info", "get_system_stats", "get_features", "get_extensions",
     "list_userdata", "get_settings", "get_setting",
     "get_workflow_templates", "get_subgraphs", "get_subgraph", "get_logs",
     "get_folder_paths", "list_files"}
PostOps ==
    {"queue_prompt", "clear_queue", "delete_queue_items", "clear_history",
     "delete_history_items", "interrupt", "free_memory", "upload_image",
     "upload_mask", "update_settings", "update_setting"}
DeleteOps == {"delete_userdata"}
\* requests.get / requests.post called directly, then raise_for_status
DirectOps == {"view_image", "get_userdata", "save_userdata", "move_userdata"}
ApiOps == GetOps \cup PostOps \cup DeleteOps \cup DirectOps \cup {"is_available"}

\* What the HTTP request of a call does.
HttpOutcomes ==
    {"ok_json", "ok_empty", "connection_error", "timeout", "http_error"}
HttpFailed(h) == h \in {"connection_error", "timeout", "http_error"}

Returns(v) == [kind |-> "returns", value |-> v]
Raises(e) == [kind |-> "raises", value |-> e]

\* A _get that answers a failed request with None.
get_swallowing(available, h) ==
    IF ~available THEN Raises("ImportError")
    ELSE IF HttpFailed(h) THEN Returns("None")
    ELSE IF h = "ok_json" THEN Returns("json") ELSE Returns("None")

\* ComfyAPI._get: RequestException is caught and ConnectionError raised.
_get(available, h) ==
    IF ~available THEN Raises("ImportError")
    ELSE IF HttpFailed(h) THEN Raises("ConnectionError")
    ELSE IF h = "ok_json" THEN Returns("json") ELSE Returns("None")

\* ComfyAPI._post
_post(available, h) ==
    IF ~available THEN Raises("ImportError")
    ELSE IF HttpFailed(h) THEN Raises("ConnectionError")
    ELSE IF h = "ok_json" THEN Returns("json") ELSE Returns("None")

\* ComfyAPI._delete: RequestException is caught and False returned.
_delete(available, h) ==
    IF ~available THEN Raises("ImportError")
    ELSE IF HttpFailed(h) THEN Returns("False") ELSE Returns("True")

\* ComfyAPI.is_available: _get inside try/except Exception.
is_available(available, h) ==
    IF _get(available, h).kind = "raises" THEN Returns("False")
    ELSE Returns("True")

\* view_image and the userdata operations: no try; without the library the
\* name requests is unbound.
direct(available, h) ==
    IF ~available THEN Raises("NameError")
    ELSE IF HttpFailed(h) THEN Raises("RequestException")
    ELSE Returns("content")

\* Operations that call a method of _get's value without testing it.
DerefOps == {"get_queue", "get_system_stats"}
\* Operations documented "-> None": they drop _post's value.
VoidOps == {"clear_queue", "delete_queue_items", "clear_history",
            "delete_history_items", "interrupt", "free_memory",
            "update_settings", "update_setting"}

\* What operation o gives its caller when its request does h.
ApiOutcome(o, available, h) ==
    IF o = "is_available" THEN is_available(available, h)
    ELSE IF o \in DeleteOps THEN _delete(available, h)
    ELSE IF o \in DirectOps THEN direct(available, h)
    ELSE IF o \in PostOps
         THEN IF _post(available, h).kind = "returns" /\ o \in VoidOps
              THEN Returns("None") ELSE _post(available, h)
    ELSE IF _get(available, h) = Returns("None") /\ o \in DerefOps
         THEN Raises("AttributeError")
    ELSE IF _get(available, h).kind = "returns" /\ o \in DerefOps
         THEN Returns("object")
    ELSE _get(available, h)

ClientStart(requests_available) ==
    /\ REQUESTS_AVAILABLE = requests_available
    /\ api_call = None
    /\ api_out = None

\* An operation is called and its request is sent.
ApiCall(o, h) ==
    /\ component = "client"
    /\ IsNone(api_call) \/ ~IsNone(api_out)
    /\ api_call' = Some([op |-> o, http |-> h])
    /\ api_out' = None
    /\ UNCHANGED <<component, uiVars, execVars, installVars, apiVars, poolVars, REQUESTS_AVAILABLE>>

\* The request is over and the operation returns or raises.
ApiReturn ==
    /\ component = "client"
    /\ ~IsNone(api_call) /\ IsNone(api_out)
    /\ api_out' = Some(ApiOutcome(Get(api_call).op, REQUESTS_AVAILABLE,
                                  Get(api_call).http))
    /\ UNCHANGED <<component, uiVars, execVars, installVars, apiVars, poolVars, REQUESTS_AVAILABLE,
                   api_call>>

NextClient ==
    \/ \E o \in ApiOps, h \in HttpOutcomes : ApiCall(o, h)
    \/ ApiReturn

\* ------------------------------------------------------ ModelDownloader
\* model_info dicts: the filename is the sequence of its path components;
\* url and repo say whether the key is there.
DirectModel == [name |-> "direct", filename |-> <<"model.ckpt">>,
                folder |-> "checkpoints", url |-> TRUE, repo |-> FALSE]
HfModel == [name |-> "hf",
            filename |-> <<"split_files", "vae", "ae.safetensors">>,
            folder |-> "vae", url |-> FALSE, repo |-> TRUE]
NoSourceModel == [name |-> "nosource", filename |-> <<"x.pt">>,
                  folder |-> "loras", url |-> FALSE, repo |-> FALSE]
Models == {DirectModel, HfModel, NoSourceModel}

\* More model_info dicts for download_multiple: a second Hugging Face file
\* for the folder of HfModel, a second model called "hf", and a model_info
\* without name (name |-> "" stands for the missing key).
HfModel2 == [name |-> "hf2",
             filename |-> <<"split_files", "vae", "flux2-vae.safetensors">>,
             folder |-> "vae", url |-> FALSE, repo |-> TRUE]
SameNameModel == [name |-> "hf", filename |-> <<"y.pt">>,
                  folder |-> "loras", url |-> FALSE, repo |-> FALSE]
UnnamedModel == [name |-> "", filename |-> <<"u.pt">>,
                 folder |-> "loras", url |-> FALSE, repo |-> FALSE]
PoolModels == {HfModel2, SameNameModel, UnnamedModel}
ModelNamed(n) == CHOOSE m \in Models : m.name = n

\* ModelDownloader._flatten_filename: Path(filename).name
_flatten_filename(filename) == <<filename[Len(filename)]>>

\* models_dir / folder / filename and models_dir / folder / flat name
ModelPath(m) == <<m.folder>> \o m.filename
FlatPath(m) == <<m.folder>> \o _flatten_filename(m.filename)
ModelPaths ==
    {ModelPath(m) : m \in Models \cup PoolModels}
        \cup {FlatPath(m) : m \in Models \cup PoolModels}

\* Path.exists
Exists(f, path) == f[path] # "absent"

\* A check that finds every model.
model_always_exists(f, m) == TRUE

\* ModelDownloader.check_model_exists
check_model_exists(f, m) == Exists(f, ModelPath(m)) \/ Exists(f, FlatPath(m))

\* ModelDownloader.get_model_status
get_model_status(f, m) == IF check_model_exists(f, m) THEN "installed" ELSE "missing"

\* A call of progress_callback(current, 100, message): the percentage and
\* what the message says.
Report(current, kind) == <<current, kind>>

\* What an operation has run: downloads of its archive or model, git clone
\* and git pull commands, requirements installations, get-pip.py downloads.
NoAttempts == [download |-> 0, clone |-> 0, pull |-> 0, requirements |-> 0,
               get_pip |-> 0]

\* shutil.move(src, dst)
Move(f, src, dst) == [f EXCEPT ![dst] = f[src], ![src] = "absent"]

\* _cleanup_hf_structure's extensions; every file name in use has one.
HasModelExtension(name) ==
    name \in {"ae.safetensors", "model.ckpt", "x.pt", "flux2-vae.safetensors",
              "y.pt", "u.pt"}

\* The files below target_dir that are not directly in it.
Nested(f, folder) ==
    {q \in ModelPaths : q[1] = folder /\ Len(q) > 2 /\ Exists(f, q)
                        /\ HasModelExtension(q[Len(q)])}

\* ModelDownloader._cleanup_hf_structure: every nested model file moves up
\* to target_dir unless a file of its name is there.
RECURSIVE _cleanup_hf_structure(_, _)
_cleanup_hf_structure(f, folder) ==
    LET movable == {q \in Nested(f, folder) : ~Exists(f, <<folder, q[Len(q)]>>)}
    IN  IF movable = {} THEN f
        ELSE LET q == CHOOSE x \in movable : TRUE
             IN  _cleanup_hf_structure(Move(f, q, <<folder, q[Len(q)]>>), folder)

\* _download_huggingface after hf_hub_download returned downloaded_path:
\* the cleanup, then the move to final_path if it is still missing.
HfPlaced(f, m) ==
    LET g == _cleanup_hf_structure(f, m.folder)
    IN  IF ~Exists(g, FlatPath(m)) /\ Exists(g, ModelPath(m))
        THEN Move(g, ModelPath(m), FlatPath(m)) ELSE g

\* _download_huggingface / _download_direct: the return value, given the
\* path tested at the end.
DownloadReturn(f, path) == IF Exists(f, path) THEN "True" ELSE "False"

\* What download_model does before any request: the source it picks.
DownloadDispatch(f, m, requests_available, hf_available) ==
    IF check_model_exists(f, m) THEN "exists"
    ELSE IF m.url THEN (IF requests_available THEN "direct" ELSE "no_requests")
    ELSE IF m.repo /\ hf_available THEN "huggingface"
    ELSE "no_source"

ModelsStart(hf, rq) ==
    /\ HF_AVAILABLE = hf
    /\ DL_REQUESTS_AVAILABLE = rq
    /\ files = [q \in ModelPaths |-> "absent"]
    /\ downloaded = 0
    /\ total_size = 0

OpStart ==
    /\ op = None
    /\ opc = "idle"
    /\ reports = <<>>
    /\ ret = "running"
    /\ attempts = NoAttempts

nodeVars == <<custom_nodes_dir, node_dirs, venv_created>>

ModelsFrame ==
    UNCHANGED <<component, uiVars, execVars, clientVars, apiVars, poolVars, HF_AVAILABLE,
                DL_REQUESTS_AVAILABLE, nodeVars, portable, op>>

\* The operation returns r after one last report.
OpReturns(last, r) ==
    /\ reports' = reports \o last
    /\ ret' = r
    /\ opc' = "returned"

\* download_model is called: an existing file or a missing source ends it
\* at once, else the download starts with its first report.
DownloadModel(m) ==
    /\ component = "models"
    /\ opc \in {"idle", "returned"}
    /\ op' = Some([name |-> "download_model", arg |-> m.name])
    /\ attempts' = NoAttempts
    /\ downloaded' = 0
    /\ total_size' = 0
    /\ LET d == DownloadDispatch(files, m, DL_REQUESTS_AVAILABLE, HF_AVAILABLE)
       IN  /\ reports' = IF d = "exists" THEN <<Report(100, "exists")>>
                         ELSE IF d \in {"direct", "huggingface"}
                              THEN <<Report(0, "start")>>
                         ELSE <<Report(0, "error")>>
           /\ ret' = IF d = "exists" THEN "True"
                     ELSE IF d \in {"direct", "huggingface"} THEN "running"
                     ELSE "False"
           /\ opc' = IF d = "direct" THEN "direct_get"
                     ELSE IF d = "huggingface" THEN "hf_download"
                     ELSE "returned"
    /\ UNCHANGED <<component, uiVars, execVars, clientVars, apiVars, poolVars, HF_AVAILABLE,
                   DL_REQUESTS_AVAILABLE, nodeVars, portable, files>>

\* _download_direct: requests.get and raise_for_status fail, or the answer
\* arrives (with or without content-length) and target_path is opened "wb".
DirectGet(ok, size) ==
    /\ component = "models"
    /\ opc = "direct_get"
    /\ attempts' = [attempts EXCEPT !.download = @ + 1]
    /\ IF ok
       THEN /\ files' = [files EXCEPT ![ModelPath(ModelNamed(Get(op).arg))] = "partial"]
            /\ total_size' = size
            /\ opc' = "direct_chunk"
            /\ UNCHANGED <<reports, ret>>
       ELSE /\ OpReturns(<<Report(0, "error")>>, "False")
            /\ UNCHANGED <<files, total_size>>
    /\ UNCHANGED downloaded
    /\ ModelsFrame

\* The last percentage _download_direct reported (last_reported).
LastReported(rs) ==
    IF rs # <<>> /\ rs[Len(rs)][2] = "progress" THEN rs[Len(rs)][1] ELSE -1

\* _download_direct: a chunk is written and, with a known size, reported.
DirectChunk ==
    /\ component = "models"
    /\ opc = "direct_chunk"
    /\ downloaded < MaxChunks
    /\ downloaded' = downloaded + 1
    /\ reports' = IF total_size > 0
                     /\ (downloaded' * 100) \div total_size # LastReported(reports)
                  THEN Append(reports,
                              Report((downloaded' * 100) \div total_size, "progress"))
                  ELSE reports
    /\ UNCHANGED <<files, total_size, opc, ret, attempts>>
    /\ ModelsFrame

\* _download_direct: the stream breaks: the handler reports and returns
\* False; what was written stays at target_path.
DirectFail ==
    /\ component = "models"
    /\ opc = "direct_chunk"
    /\ downloaded < MaxChunks
    /\ OpReturns(<<Report(0, "error")>>, "False")
    /\ UNCHANGED <<files, total_size, downloaded, attempts>>
    /\ ModelsFrame

\* _download_direct: the stream is exhausted, the file is closed.
DirectDone ==
    /\ component = "models"
    /\ opc = "direct_chunk"
    /\ downloaded = MaxChunks
    /\ files' = [files EXCEPT ![ModelPath(ModelNamed(Get(op).arg))] = "complete"]
    /\ OpReturns(<<Report(100, "done")>>,
                 DownloadReturn(files', ModelPath(ModelNamed(Get(op).arg))))
    /\ UNCHANGED <<total_size, downloaded, attempts>>
    /\ ModelsFrame

\* _download_huggingface: hf_hub_download raises, or leaves the file at
\* local_dir / filename.
HfDownload(ok) ==
    /\ component = "models"
    /\ opc = "hf_download"
    /\ attempts' = [attempts EXCEPT !.download = @ + 1]
    /\ IF ok
       THEN /\ files' = [files EXCEPT ![ModelPath(ModelNamed(Get(op).arg))] = "complete"]
            /\ opc' = "hf_cleanup"
            /\ UNCHANGED <<reports, ret>>
       ELSE /\ OpReturns(<<Report(0, "error")>>, "False")
            /\ UNCHANGED files
    /\ UNCHANGED <<total_size, downloaded>>
    /\ ModelsFrame

\* _download_huggingface: cleanup, move, the last report and the result.
HfFinish ==
    /\ component = "models"
    /\ opc = "hf_cleanup"
    /\ files' = HfPlaced(files, ModelNamed(Get(op).arg))
    /\ OpReturns(<<Report(100, "done")>>,
                 DownloadReturn(files', FlatPath(ModelNamed(Get(op).arg))))
    /\ UNCHANGED <<total_size, downloaded, attempts>>
    /\ ModelsFrame

NextModels ==
    \/ \E m \in Models : DownloadModel(m)
    \/ \E ok \in BOOLEAN, size \in {0, MaxChunks} : DirectGet(ok, size)
    \/ DirectChunk
    \/ DirectFail
    \/ DirectDone
    \/ \E ok \in BOOLEAN : HfDownload(ok)
    \/ HfFinish

\* ---------------------------------------------------- CustomNodeManager
\* node_info dicts; repo is the URL as its path components.
ManagerNode == [name |-> "Manager",
                repo |-> <<"github.com", "ltdrdata", "ComfyUI-Manager.git">>]
ImpactNode == [name |-> "Impact Pack",
               repo |-> <<"github.com", "ltdrdata", "ComfyUI-Impact-Pack">>]
NodeInfos == {ManagerNode, ImpactNode}

\* str.replace(".git", "") on the names in use
StripGit(segment) ==
    IF segment = "ComfyUI-Manager.git" THEN "ComfyUI-Manager" ELSE segment

\* install_node: repo_url.rstrip("/").split("/")[-1].replace(".git", "")
repo_name(repo) == StripGit(repo[Len(repo)])

NodeRepos == {repo_name(n.repo) : n \in NodeInfos}

\* The node names remove_node and update_node are given.
NodeNames == NodeRepos \cup {"comfyui-manager", "No-Such-Node"}

\* str.lower on the names in use
Lower(name) ==
    IF name \in {"ComfyUI-Manager", "comfyui-manager"} THEN "comfyui-manager"
    ELSE IF name = "ComfyUI-Impact-Pack" THEN "comfyui-impact-pack"
    ELSE "no-such-node"

\* remove_node / update_node: the directories of custom_nodes that match.
FindNode(dirs, node_name) ==
    {d \in NodeRepos : /\ dirs[d] # "absent"
                       /\ (d = node_name \/ Lower(d) = Lower(node_name))}

\* What an operation did: its reports, its return value ("raised" when an
\* exception left it), what it ran and the directories afterwards.
Done(rs, r, att, cnd, dirs) ==
    [reports |-> rs, ret |-> r, attempts |-> att,
     custom_nodes_dir |-> cnd, node_dirs |-> dirs]

\* _install_node_requirements: <<reports, installs run, raised>>.  The
\* value of VenvManager.install_requirements is not looked at.
_install_node_requirements(dir, venv, req) ==
    IF dir # "requirements" THEN <<<<>>, 0, FALSE>>
    ELSE IF ~venv THEN << <<Report(0, "warning")>>, 0, FALSE >>
    ELSE << <<>>, 1, req = "raised" >>

\* An install_node that clones again over an existing directory.
install_node_always(n, dirs, cnd, venv, clone, req) ==
    Done(<<Report(0, "start"), Report(100, "done")>>, "True",
         [NoAttempts EXCEPT !.clone = 1], TRUE,
         [dirs EXCEPT ![repo_name(n.repo)] = "plain"])

\* CustomNodeManager.install_node; clone is what git clone does, req what
\* VenvManager.install_requirements does.
install_node(n, dirs, cnd, venv, clone, req) ==
    LET target == repo_name(n.repo)
        one == [NoAttempts EXCEPT !.clone = 1]
        cloned == [dirs EXCEPT ![target] =
                      IF clone = "cloned_requirements" THEN "requirements"
                      ELSE "plain"]
        rq == _install_node_requirements(cloned[target], venv, req)
    IN  IF dirs[target] # "absent"
        THEN Done(<<Report(100, "exists")>>, "True", NoAttempts, cnd, dirs)
        ELSE IF clone \in {"git_not_found", "failed"}
        THEN Done(<<Report(0, "start"), Report(0, "error")>>, "False", one,
                  TRUE, dirs)
        ELSE IF rq[3]
        THEN Done(<<Report(0, "start"), Report(50, "progress")>> \o rq[1]
                     \o <<Report(0, "error")>>,
                  "False", [one EXCEPT !.requirements = rq[2]], TRUE, cloned)
        ELSE Done(<<Report(0, "start"), Report(50, "progress")>> \o rq[1]
                     \o <<Report(100, "done")>>,
                  "True", [one EXCEPT !.requirements = rq[2]], TRUE, cloned)

\* CustomNodeManager.remove_node; rm is what shutil.rmtree does.  iterdir on
\* a custom_nodes directory that does not exist raises outside the try.
remove_node(node_name, dirs, cnd, rm) ==
    IF ~cnd THEN Done(<<>>, "raised", NoAttempts, cnd, dirs)
    ELSE IF FindNode(dirs, node_name) = {}
    THEN Done(<<Report(0, "error")>>, "False", NoAttempts, cnd, dirs)
    ELSE IF rm = "raised"
    THEN Done(<<Report(0, "start"), Report(0, "error")>>, "False",
              NoAttempts, cnd, dirs)
    ELSE Done(<<Report(0, "start"), Report(100, "done")>>, "True", NoAttempts,
              cnd, [dirs EXCEPT ![CHOOSE d \in FindNode(dirs, node_name) : TRUE]
                                    = "absent"])

\* CustomNodeManager.update_node; pull is what git pull does.
update_node(node_name, dirs, cnd, venv, pull, req) ==
    LET one == [NoAttempts EXCEPT !.pull = 1]
        found == FindNode(dirs, node_name)
        rq == _install_node_requirements(
                  dirs[CHOOSE d \in found : TRUE], venv, req)
    IN  IF ~cnd THEN Done(<<>>, "raised", NoAttempts, cnd, dirs)
        ELSE IF found = {}
        THEN Done(<<Report(0, "error")>>, "False", NoAttempts, cnd, dirs)
        ELSE IF pull \in {"git_not_found", "failed"}
        THEN Done(<<Report(0, "start"), Report(0, "error")>>, "False", one,
                  cnd, dirs)
        ELSE IF rq[3]
        THEN Done(<<Report(0, "start"), Report(50, "progress")>> \o rq[1]
                     \o <<Report(0, "error")>>,
                  "False", [one EXCEPT !.requirements = rq[2]], cnd, dirs)
        ELSE Done(<<Report(0, "start"), Report(50, "progress")>> \o rq[1]
                     \o <<Report(100, "done")>>,
                  "True", [one EXCEPT !.requirements = rq[2]], cnd, dirs)

NodesStart(cnd, venv) ==
    /\ custom_nodes_dir = cnd
    /\ node_dirs = [d \in NodeRepos |-> "absent"]
    /\ venv_created = venv

\* A whole call of a CustomNodeManager operation that did d.
NodeOp(name, arg, d) ==
    /\ component = "nodes"
    /\ op' = Some([name |-> name, arg |-> arg])
    /\ opc' = "returned"
    /\ reports' = d.reports
    /\ ret' = d.ret
    /\ attempts' = d.attempts
    /\ custom_nodes_dir' = d.custom_nodes_dir
    /\ node_dirs' = d.node_dirs
    /\ UNCHANGED <<component, uiVars, execVars, clientVars, apiVars, poolVars, HF_AVAILABLE,
                   DL_REQUESTS_AVAILABLE, files, downloaded, total_size,
                   venv_created, portable>>

CloneOutcomes == {"git_not_found", "failed", "cloned_plain", "cloned_requirements"}
PullOutcomes == {"git_not_found", "failed", "pulled"}
ReqOutcomes == {"ok", "failed", "raised"}

InstallNode(n, clone, req) ==
    NodeOp("install_node", n.name,
           install_node(n, node_dirs, custom_nodes_dir, venv_created, clone, req))

RemoveNode(node_name, rm) ==
    NodeOp("remove_node", node_name,
           remove_node(node_name, node_dirs, custom_nodes_dir, rm))

UpdateNode(node_name, pull, req) ==
    NodeOp("update_node", node_name,
           update_node(node_name, node_dirs, custom_nodes_dir, venv_created,
                       pull, req))

NextNodes ==
    \/ \E n \in NodeInfos, clone \in CloneOutcomes, req \in ReqOutcomes :
          InstallNode(n, clone, req)
    \/ \E node_name \in NodeNames, rm \in {"ok", "raised"} :
          RemoveNode(node_name, rm)
    \/ \E node_name \in NodeNames, pull \in PullOutcomes, req \in ReqOutcomes :
          UpdateNode(node_name, pull, req)

NodesIdle == NodesStart(FALSE, FALSE)

\* ------------------------------------- GitManager, FfmpegManager, PythonManager
\* What is on disk under base_dir: git_portable/cmd/git.exe,
\* ffmpeg_portable/bin/ffmpeg.exe, python_embedded/python.exe, its
\* python*._pth file, Lib/site-packages, and whether "python -m pip" works.
NoPortable == [git_exe |-> FALSE, ffmpeg_exe |-> FALSE, python_exe |-> FALSE,
               pth |-> FALSE, site_packages |-> FALSE, pip |-> FALSE]

GitManager_is_installed(p) == p.git_exe
FfmpegManager_is_installed(p) == p.ffmpeg_exe
PythonManager_is_installed(p) == p.python_exe /\ p.site_packages
has_pip(p) == p.python_exe /\ p.pip

\* The band the comment in each _download_file gives its percentages.
DownloadBand(manager) ==
    IF manager = "GitManager" THEN 5..80
    ELSE IF manager = "FfmpegManager" THEN 5..75
    ELSE 5..50

\* _download_file's reports: after each of the chunks read, with a known
\* Content-Length, pct = int(downloaded / total_size * scale) + 5.
\* A _download_file that leaves the division by total_size out.
download_file_unscaled(scale, size, chunks) ==
    [k \in 1..chunks |-> Report(k * scale + 5, "download")]

_download_file(scale, size, chunks) ==
    IF size > 0
    THEN [k \in 1..chunks |-> Report((k * scale) \div size + 5, "download")]
    ELSE <<>>

\* What a download_and_setup did: its reports, its return value, what it
\* ran and the disk afterwards.
Setup(rs, r, att, p) == [reports |-> rs, ret |-> r, attempts |-> att, portable |-> p]

\* A download: refused by urlopen, broken after some chunks, or complete.
\* chunks is the number of chunks read.
DownloadOutcomes ==
    {[kind |-> "refused", size |-> 0, chunks |-> 0]}
    \cup {[kind |-> "broken", size |-> MaxChunks, chunks |-> k] : k \in 0..(MaxChunks - 1)}
    \cup {[kind |-> "ok", size |-> sz, chunks |-> MaxChunks] : sz \in {0, MaxChunks}}

OneDownload == [NoAttempts EXCEPT !.download = 1]

\* The start report, the download and, when it failed, the handler's report.
Downloading(scale, dl) ==
    <<Report(0, "start")>> \o _download_file(scale, dl.size, dl.chunks)
        \o (IF dl.kind = "ok" THEN <<>> ELSE <<Report(0, "error")>>)

\* GitManager.download_and_setup; archive is what the zip holds.
GitManager_download_and_setup(p, dl, archive) ==
    IF GitManager_is_installed(p)
    THEN Setup(<<Report(100, "exists")>>, "True", NoAttempts, p)
    ELSE IF dl.kind # "ok"
    THEN Setup(Downloading(75, dl), "False", OneDownload, p)
    ELSE IF archive = "bad_zip"
    THEN Setup(Downloading(75, dl) \o <<Report(80, "progress"), Report(0, "error")>>,
               "False", OneDownload, p)
    ELSE Setup(Downloading(75, dl) \o <<Report(80, "progress"), Report(100, "done")>>,
               "True", OneDownload,
               [p EXCEPT !.git_exe = (archive = "good")])

\* FfmpegManager.download_and_setup
FfmpegManager_download_and_setup(p, dl, archive) ==
    IF FfmpegManager_is_installed(p)
    THEN Setup(<<Report(100, "exists")>>, "True", NoAttempts, p)
    ELSE IF dl.kind # "ok"
    THEN Setup(Downloading(70, dl), "False", OneDownload, p)
    ELSE IF archive \in {"bad_zip", "no_inner", "no_bin"}
    THEN Setup(Downloading(70, dl) \o <<Report(75, "progress"), Report(0, "error")>>,
               "False", OneDownload, p)
    ELSE Setup(Downloading(70, dl) \o <<Report(75, "progress"), Report(100, "done")>>,
               "True", OneDownload,
               [p EXCEPT !.ffmpeg_exe = (archive = "good")])

\* PythonManager._bootstrap_pip: get-pip.py is downloaded and run;
\* <<reports, raised, pip afterwards>>.
_bootstrap_pip(p, pipdl, piprun) ==
    IF pipdl # "ok" THEN << <<Report(78, "progress")>>, TRUE, p.pip >>
    ELSE IF ~p.python_exe \/ piprun # "ok"
    THEN << <<Report(78, "progress"), Report(82, "progress")>>, TRUE, p.pip >>
    ELSE << <<Report(78, "progress"), Report(82, "progress"),
              Report(88, "progress")>>, FALSE, TRUE >>

\* PythonManager.download_and_setup from step 3 on, the files of the
\* distribution being as in p.
PythonConfigure(rs, att, p, pipdl, piprun) ==
    LET sp == [p EXCEPT !.site_packages = TRUE]
        bp == _bootstrap_pip(sp, pipdl, piprun)
        configured == rs \o <<Report(65, "progress")>>
    IN  IF ~p.pth
        THEN Setup(configured \o <<Report(0, "error")>>, "False", att, p)
        ELSE IF has_pip(sp)
        THEN Setup(configured \o <<Report(100, "done")>>, "True", att, sp)
        ELSE IF bp[2]
        THEN Setup(configured \o <<Report(75, "progress")>> \o bp[1]
                      \o <<Report(0, "error")>>,
                   "False", [att EXCEPT !.get_pip = 1], sp)
        ELSE Setup(configured \o <<Report(75, "progress")>> \o bp[1]
                      \o <<Report(100, "done")>>,
                   "True", [att EXCEPT !.get_pip = 1], [sp EXCEPT !.pip = bp[3]])

\* PythonManager.download_and_setup
PythonManager_download_and_setup(p, dl, archive, pipdl, piprun) ==
    IF PythonManager_is_installed(p) /\ has_pip(p)
    THEN Setup(<<Report(100, "exists")>>, "True", NoAttempts, p)
    ELSE IF p.python_exe
    THEN PythonConfigure(<<>>, NoAttempts, p, pipdl, piprun)
    ELSE IF dl.kind # "ok"
    THEN Setup(Downloading(45, dl), "False", OneDownload, p)
    ELSE IF archive = "bad_zip"
    THEN Setup(Downloading(45, dl) \o <<Report(50, "progress"), Report(0, "error")>>,
               "False", OneDownload, p)
    ELSE PythonConfigure(Downloading(45, dl) \o <<Report(50, "progress")>>,
                         OneDownload,
                         [p EXCEPT !.python_exe = (archive # "no_exe"),
                                   !.pth = (archive # "no_pth")],
                         pipdl, piprun)

GitArchives == {"bad_zip", "no_exe", "good"}
FfmpegArchives == {"bad_zip", "no_inner", "no_bin", "no_exe", "good"}
PythonArchives == {"bad_zip", "no_exe", "no_pth", "good"}
PipOutcomes == {"failed", "ok"}

\* A whole call of a manager's download_and_setup that did d.
SetupOp(manager, d) ==
    /\ component = "runtimes"
    /\ op' = Some([name |-> "download_and_setup", arg |-> manager])
    /\ opc' = "returned"
    /\ reports' = d.reports
    /\ ret' = d.ret
    /\ attempts' = d.attempts
    /\ portable' = d.portable
    /\ UNCHANGED <<component, uiVars, execVars, clientVars, apiVars, poolVars, HF_AVAILABLE,
                   DL_REQUESTS_AVAILABLE, files, downloaded, total_size,
                   nodeVars>>

GitSetup(dl, archive) ==
    SetupOp("GitManager", GitManager_download_and_setup(portable, dl, archive))

FfmpegSetup(dl, archive) ==
    SetupOp("FfmpegManager", FfmpegManager_download_and_setup(portable, dl, archive))

PythonSetup(dl, archive, pipdl, piprun) ==
    SetupOp("PythonManager",
            PythonManager_download_and_setup(portable, dl, archive, pipdl, piprun))

NextRuntimes ==
    \/ \E dl \in DownloadOutcomes, archive \in GitArchives : GitSetup(dl, archive)
    \/ \E dl \in DownloadOutcomes, archive \in FfmpegArchives :
          FfmpegSetup(dl, archive)
    \/ \E dl \in DownloadOutcomes, archive \in PythonArchives,
          pipdl \in PipOutcomes, piprun \in PipOutcomes :
          PythonSetup(dl, archive, pipdl, piprun)

RuntimesIdle == portable = NoPortable

\* The installer parts at rest, for runs that drive another component.
\* ComfyAPI.__init__: no callbacks registered.
ApiStart ==
    /\ wait = FALSE
    /\ _ws_callbacks = << >>
    /\ event = None
    /\ invoked = <<>>

\* No batch call yet.
\* No install tab in use.
TabIdle ==
    /\ tab_pc = "idle"
    /\ comfy_installed = FALSE
    /\ server_running = FALSE
    /\ stop_worker = "none"
    /\ purge_worker = "none"
    /\ purge_req = None
    /\ purge_saw = None

PoolIdle ==
    /\ batch = <<>>
    /\ max_workers = 0
    /\ tpc = <<>>
    /\ tseen = <<>>
    /\ tmove = <<>>
    /\ tenv = <<>>
    /\ tdl = <<>>
    /\ tret = <<>>
    /\ results = << >>
    /\ bpc = "idle"

InstallStart ==
    /\ ModelsStart(TRUE, TRUE)
    /\ OpStart
    /\ NodesIdle
    /\ RuntimesIdle

InitExec ==
    /\ component = "executor"
    /\ ApiStart
    /\ PoolIdle
    /\ TabIdle
    /\ \E wa \in BOOLEAN : ExecStart(wa)
    /\ ClientStart(TRUE)
    /\ InstallStart

\* A BatchExecutor after construction, in an installation without the
\* websocket-client library: _connect_ws starts no listener thread and
\* _wait_with_ws looks the history up until the timeout.
InitBatchExec ==
    /\ component = "batch_exec"
    /\ ApiStart
    /\ PoolIdle
    /\ TabIdle
    /\ ExecStart(FALSE)
    /\ ClientStart(TRUE)
    /\ InstallStart

InitClient ==
    /\ component = "client"
    /\ ApiStart
    /\ PoolIdle
    /\ TabIdle
    /\ ExecStart(TRUE)
    /\ \E ra \in BOOLEAN : ClientStart(ra)
    /\ InstallStart

InitModels ==
    /\ component = "models"
    /\ ApiStart
    /\ PoolIdle
    /\ TabIdle
    /\ ExecStart(TRUE)
    /\ ClientStart(TRUE)
    /\ \E hf \in BOOLEAN, rq \in BOOLEAN : ModelsStart(hf, rq)
    /\ OpStart
    /\ NodesIdle
    /\ RuntimesIdle

InitNodes ==
    /\ component = "nodes"
    /\ ApiStart
    /\ PoolIdle
    /\ TabIdle
    /\ ExecStart(TRUE)
    /\ ClientStart(TRUE)
    /\ ModelsStart(TRUE, TRUE)
    /\ OpStart
    /\ \E cnd \in BOOLEAN, venv \in BOOLEAN : NodesStart(cnd, venv)
    /\ RuntimesIdle

InitWorkflow ==
    /\ component = "workflow"
    /\ ApiStart
    /\ PoolIdle
    /\ TabIdle
    /\ ExecStart(TRUE)
    /\ ClientStart(TRUE)
    /\ InstallStart

InitRuntimes ==
    /\ component = "runtimes"
    /\ ApiStart
    /\ PoolIdle
    /\ TabIdle
    /\ ExecStart(TRUE)
    /\ ClientStart(TRUE)
    /\ InstallStart

\* ------------------------------------- ComfyAPI.on / off / _on_message
EventTypes == {"status", "progress"}
\* The callbacks a client registers; calling "g" raises.
EventCallbacks == {"f", "g"}
CallbackRaises(cb) == cb = "g"

\* list.remove(x): the list without the first x.
RECURSIVE Remove(_, _)
Remove(list, x) ==
    IF list = <<>> THEN <<>>
    ELSE IF Head(list) = x THEN Tail(list)
    ELSE <<Head(list)>> \o Remove(Tail(list), x)

\* ComfyAPI.on
on(cbs, event_type, callback) ==
    IF event_type \in DOMAIN cbs
    THEN [cbs EXCEPT ![event_type] = Append(@, callback)]
    ELSE cbs @@ (event_type :> <<callback>>)

\* ComfyAPI.off with a callback (list.remove raises ValueError for a
\* callback that is not in the list, which then stays as it is)
off(cbs, event_type, callback) ==
    IF event_type \notin DOMAIN cbs THEN cbs
    ELSE [cbs EXCEPT ![event_type] = Remove(@, callback)]

\* ComfyAPI.off without a callback
off_all(cbs, event_type) ==
    IF event_type \notin DOMAIN cbs THEN cbs
    ELSE [cbs EXCEPT ![event_type] = <<>>]

\* _on_message's loop: the callbacks called, up to the first that raises.
RECURSIVE Called(_)
Called(list) ==
    IF list = <<>> THEN <<>>
    ELSE IF CallbackRaises(Head(list)) THEN <<Head(list)>>
    ELSE <<Head(list)>> \o Called(Tail(list))

\* connect_websocket._on_message for a JSON message of type msg_type: the
\* connection's on_message, then self._ws_callbacks.get(msg_type, []).
_on_message(cbs, msg_type) ==
    <<"on_message">> \o
        Called(IF msg_type \in DOMAIN cbs THEN cbs[msg_type] ELSE <<>>)

EventFrame ==
    UNCHANGED <<component, uiVars, execVars, clientVars, installVars, poolVars, wait>>

On(event_type, callback) ==
    /\ component = "events"
    /\ event_type \in DOMAIN _ws_callbacks =>
          Len(_ws_callbacks[event_type]) < MaxCallbacks
    /\ _ws_callbacks' = on(_ws_callbacks, event_type, callback)
    /\ event' = Some([kind |-> "on", type |-> event_type,
                      callback |-> callback, raised |-> FALSE])
    /\ UNCHANGED invoked
    /\ EventFrame

Off(event_type, callback) ==
    /\ component = "events"
    /\ _ws_callbacks' = off(_ws_callbacks, event_type, callback)
    /\ event' = Some([kind |-> "off", type |-> event_type,
                      callback |-> callback,
                      raised |-> /\ event_type \in DOMAIN _ws_callbacks
                                 /\ \A i \in 1..Len(_ws_callbacks[event_type]) :
                                       _ws_callbacks[event_type][i] # callback])
    /\ UNCHANGED invoked
    /\ EventFrame

OffAll(event_type) ==
    /\ component = "events"
    /\ _ws_callbacks' = off_all(_ws_callbacks, event_type)
    /\ event' = Some([kind |-> "off_all", type |-> event_type,
                      callback |-> "", raised |-> FALSE])
    /\ UNCHANGED invoked
    /\ EventFrame

\* A JSON message arrives on the listener.
Message(msg_type) ==
    /\ component = "events"
    /\ invoked' = _on_message(_ws_callbacks, msg_type)
    /\ event' = Some([kind |-> "message", type |-> msg_type, callback |-> "",
                      raised |-> invoked' # <<>>
                                 /\ CallbackRaises(invoked'[Len(invoked')])])
    /\ UNCHANGED _ws_callbacks
    /\ EventFrame

NextEvents ==
    \/ \E t \in EventTypes, cb \in EventCallbacks : On(t, cb)
    \/ \E t \in EventTypes, cb \in EventCallbacks : Off(t, cb)
    \/ \E t \in EventTypes : OffAll(t)
    \/ \E t \in EventTypes : Message(t)

InitEvents ==
    /\ component = "events"
    /\ ApiStart
    /\ PoolIdle
    /\ TabIdle
    /\ ExecStart(TRUE)
    /\ ClientStart(TRUE)
    /\ InstallStart

\* ------------------------------------- ModelDownloader.download_multiple
\* The lists of models given to download_multiple.
Batches ==
    { <<HfModel, HfModel2>>,
      <<DirectModel, HfModel, UnnamedModel>>,
      <<HfModel, SameNameModel>> }

\* download_with_tracking: model_info.get("name", model_info.get("filename"))
Key(m) == IF m.name # "" THEN <<m.name>> ELSE m.filename

\* model_callback / node_callback:
\* overall = int((index + current / 100) / total * 100)
Overall(index, current, total) == (100 * index + current) \div total

Tasks == 1..Len(batch)
InProgress == {i \in Tasks : tpc[i] \notin {"pending", "finished", "collected"}}

\* The task's model_callback is called.
TaskReports(i, current, kind) ==
    reports' = Append(reports, Report(Overall(i - 1, current, Len(batch)), kind))

\* download_model of task i returns r.
TaskReturns(i, r) ==
    /\ tret' = [tret EXCEPT ![i] = Some(r)]
    /\ tpc' = [tpc EXCEPT ![i] = "finished"]

PoolFrame ==
    UNCHANGED <<component, uiVars, execVars, clientVars, apiVars, HF_AVAILABLE,
                DL_REQUESTS_AVAILABLE, nodeVars, portable, op, opc, ret,
                attempts, downloaded, total_size, batch, max_workers>>

\* download_multiple is called: every model is submitted to the pool.
DownloadMultiple(models, workers) ==
    /\ component = "pool"
    /\ bpc = "idle"
    /\ batch' = models
    /\ max_workers' = workers
    /\ tpc' = [i \in 1..Len(models) |-> "pending"]
    /\ tseen' = [i \in 1..Len(models) |-> {}]
    /\ tmove' = [i \in 1..Len(models) |-> None]
    /\ tenv' = [i \in 1..Len(models) |-> "none"]
    /\ tdl' = [i \in 1..Len(models) |-> 0]
    /\ tret' = [i \in 1..Len(models) |-> None]
    /\ results' = << >>
    /\ bpc' = "running"
    /\ reports' = <<>>
    /\ UNCHANGED <<component, uiVars, execVars, clientVars, apiVars, HF_AVAILABLE,
                   DL_REQUESTS_AVAILABLE, nodeVars, portable, op, opc, ret,
                   attempts, downloaded, total_size, files>>

\* A free worker of the pool takes the next submitted task and calls
\* download_model: an existing file or a missing source ends it at once.
TaskStart(i) ==
    /\ component = "pool"
    /\ bpc = "running"
    /\ tpc[i] = "pending"
    /\ \A j \in 1..(i - 1) : tpc[j] # "pending"
    /\ Cardinality(InProgress) < max_workers
    /\ LET d == DownloadDispatch(files, batch[i], DL_REQUESTS_AVAILABLE, HF_AVAILABLE)
       IN  IF d = "exists"
           THEN TaskReports(i, 100, "exists") /\ TaskReturns(i, "True")
           ELSE IF d \in {"direct", "huggingface"}
           THEN /\ TaskReports(i, 0, "start")
                /\ tpc' = [tpc EXCEPT ![i] = IF d = "direct" THEN "direct_get"
                                             ELSE "hf_download"]
                /\ UNCHANGED tret
           ELSE TaskReports(i, 0, "error") /\ TaskReturns(i, "False")
    /\ UNCHANGED <<files, tseen, tmove, tenv, tdl, results, bpc>>
    /\ PoolFrame

\* _download_direct in a worker: the request.
TaskDirectGet(i, ok) ==
    /\ component = "pool"
    /\ tpc[i] = "direct_get"
    /\ IF ok
       THEN /\ files' = [files EXCEPT ![ModelPath(batch[i])] = "partial"]
            /\ tpc' = [tpc EXCEPT ![i] = "direct_chunk"]
            /\ tenv' = [tenv EXCEPT ![i] = "ok"]
            /\ UNCHANGED <<reports, tret>>
       ELSE /\ TaskReports(i, 0, "error")
            /\ TaskReturns(i, "False")
            /\ tenv' = [tenv EXCEPT ![i] = "refused"]
            /\ UNCHANGED files
    /\ UNCHANGED <<tseen, tmove, tdl, results, bpc>>
    /\ PoolFrame

\* _download_direct in a worker: a chunk of a download of MaxChunks chunks.
TaskDirectChunk(i) ==
    /\ component = "pool"
    /\ tpc[i] = "direct_chunk"
    /\ tdl[i] < MaxChunks
    /\ tdl' = [tdl EXCEPT ![i] = @ + 1]
    /\ TaskReports(i, (tdl'[i] * 100) \div MaxChunks, "progress")
    /\ UNCHANGED <<files, tpc, tseen, tmove, tenv, tret, results, bpc>>
    /\ PoolFrame

\* _download_direct in a worker: the stream breaks.
TaskDirectFail(i) ==
    /\ component = "pool"
    /\ tpc[i] = "direct_chunk"
    /\ tdl[i] < MaxChunks
    /\ TaskReports(i, 0, "error")
    /\ TaskReturns(i, "False")
    /\ tenv' = [tenv EXCEPT ![i] = "broken"]
    /\ UNCHANGED <<files, tseen, tmove, tdl, results, bpc>>
    /\ PoolFrame

\* _download_direct in a worker: the stream is exhausted.
TaskDirectDone(i) ==
    /\ component = "pool"
    /\ tpc[i] = "direct_chunk"
    /\ tdl[i] = MaxChunks
    /\ files' = [files EXCEPT ![ModelPath(batch[i])] = "complete"]
    /\ TaskReports(i, 100, "done")
    /\ TaskReturns(i, DownloadReturn(files', ModelPath(batch[i])))
    /\ UNCHANGED <<tseen, tmove, tenv, tdl, results, bpc>>
    /\ PoolFrame

\* _download_huggingface in a worker: hf_hub_download.
TaskHfDownload(i, ok) ==
    /\ component = "pool"
    /\ tpc[i] = "hf_download"
    /\ IF ok
       THEN /\ files' = [files EXCEPT ![ModelPath(batch[i])] = "complete"]
            /\ tpc' = [tpc EXCEPT ![i] = "hf_cleanup"]
            /\ tenv' = [tenv EXCEPT ![i] = "ok"]
            /\ UNCHANGED <<reports, tret>>
       ELSE /\ TaskReports(i, 0, "error")
            /\ TaskReturns(i, "False")
            /\ tenv' = [tenv EXCEPT ![i] = "refused"]
            /\ UNCHANGED files
    /\ UNCHANGED <<tseen, tmove, tdl, results, bpc>>
    /\ PoolFrame

\* _cleanup_hf_structure in a worker, one item of rglob: a nested model
\* file of the folder, whoever downloaded it, and the test of its dest.
TaskHfCheck(i, q) ==
    /\ component = "pool"
    /\ tpc[i] = "hf_cleanup"
    /\ q \in Nested(files, batch[i].folder) \ tseen[i]
    /\ tseen' = [tseen EXCEPT ![i] = @ \cup {q}]
    /\ IF ~Exists(files, <<batch[i].folder, q[Len(q)]>>)
       THEN /\ tmove' = [tmove EXCEPT ![i] = Some(q)]
            /\ tpc' = [tpc EXCEPT ![i] = "hf_move"]
       ELSE UNCHANGED <<tmove, tpc>>
    /\ UNCHANGED <<files, reports, tenv, tdl, tret, results, bpc>>
    /\ PoolFrame

\* _cleanup_hf_structure in a worker: shutil.move of the item; it raises
\* when another worker has moved the item away since the test, and the
\* handler of _download_huggingface reports and returns False.
TaskHfMove(i) ==
    /\ component = "pool"
    /\ tpc[i] = "hf_move"
    /\ LET q == Get(tmove[i])
       IN  IF Exists(files, q)
           THEN /\ files' = Move(files, q, <<batch[i].folder, q[Len(q)]>>)
                /\ tpc' = [tpc EXCEPT ![i] = "hf_cleanup"]
                /\ UNCHANGED <<reports, tret>>
           ELSE /\ TaskReports(i, 0, "error")
                /\ TaskReturns(i, "False")
                /\ UNCHANGED files
    /\ tmove' = [tmove EXCEPT ![i] = None]
    /\ UNCHANGED <<tseen, tenv, tdl, results, bpc>>
    /\ PoolFrame

\* _download_huggingface in a worker, the cleanup loop being over: the
\* move to final_path if it is still missing, the report, the result.
TaskHfFinish(i) ==
    /\ component = "pool"
    /\ tpc[i] = "hf_cleanup"
    /\ Nested(files, batch[i].folder) \ tseen[i] = {}
    /\ files' = IF ~Exists(files, FlatPath(batch[i]))
                   /\ Exists(files, ModelPath(batch[i]))
                THEN Move(files, ModelPath(batch[i]), FlatPath(batch[i]))
                ELSE files
    /\ TaskReports(i, 100, "done")
    /\ TaskReturns(i, DownloadReturn(files', FlatPath(batch[i])))
    /\ UNCHANGED <<tseen, tmove, tenv, tdl, results, bpc>>
    /\ PoolFrame

\* as_completed yields a finished future: results[name] = success.
Collect(i) ==
    /\ component = "pool"
    /\ bpc = "running"
    /\ tpc[i] = "finished"
    /\ tpc' = [tpc EXCEPT ![i] = "collected"]
    /\ results' = [k \in DOMAIN results \cup {Key(batch[i])} |->
                      IF k = Key(batch[i]) THEN Get(tret[i]) ELSE results[k]]
    /\ UNCHANGED <<files, reports, tseen, tmove, tenv, tdl, tret, bpc>>
    /\ PoolFrame

\* Every future has been yielded: the pool shuts down, results is returned.
PoolReturn ==
    /\ component = "pool"
    /\ bpc = "running"
    /\ \A i \in Tasks : tpc[i] = "collected"
    /\ bpc' = "returned"
    /\ UNCHANGED <<files, reports, tpc, tseen, tmove, tenv, tdl, tret, results>>
    /\ PoolFrame

NextPool ==
    \/ \E b \in Batches, w \in 1..MaxWorkers : DownloadMultiple(b, w)
    \/ \E i \in Tasks : TaskStart(i)
    \/ \E i \in Tasks, ok \in BOOLEAN : TaskDirectGet(i, ok)
    \/ \E i \in Tasks : TaskDirectChunk(i)
    \/ \E i \in Tasks : TaskDirectFail(i)
    \/ \E i \in Tasks : TaskDirectDone(i)
    \/ \E i \in Tasks, ok \in BOOLEAN : TaskHfDownload(i, ok)
    \/ \E i \in Tasks, q \in ModelPaths : TaskHfCheck(i, q)
    \/ \E i \in Tasks : TaskHfMove(i)
    \/ \E i \in Tasks : TaskHfFinish(i)
    \/ \E i \in Tasks : Collect(i)
    \/ PoolReturn

InitPool ==
    /\ component = "pool"
    /\ ApiStart
    /\ PoolIdle
    /\ TabIdle
    /\ ExecStart(TRUE)
    /\ ClientStart(TRUE)
    /\ InstallStart

\* ------------------------------------- CustomNodeManager.install_multiple
\* The lists of nodes given to install_multiple.
NodeBatches == { <<ManagerNode, ImpactNode>>, <<ImpactNode>> }

\* node_callback on the reports of one install_node call, node i of the list.
NodeReports(i, rs) ==
    [k \in 1..Len(rs) |-> Report(Overall(i - 1, rs[k][1], Len(batch)), rs[k][2])]

BatchFrame ==
    UNCHANGED <<component, uiVars, execVars, clientVars, apiVars, HF_AVAILABLE,
                DL_REQUESTS_AVAILABLE, files, downloaded, total_size,
                venv_created, portable, op, opc, ret, attempts, max_workers,
                tpc, tseen, tmove, tenv, tdl>>

\* install_multiple is called.
InstallMultiple(nodes) ==
    /\ component = "install_batch"
    /\ bpc = "idle"
    /\ batch' = nodes
    /\ tret' = [i \in 1..Len(nodes) |-> None]
    /\ results' = << >>
    /\ reports' = <<>>
    /\ bpc' = "running"
    /\ UNCHANGED <<custom_nodes_dir, node_dirs>>
    /\ BatchFrame

\* One turn of the loop of install_multiple: install_node for the next node
\* with node_callback, then results[name] = success.
InstallNext(clone, req) ==
    /\ component = "install_batch"
    /\ bpc = "running"
    /\ \E i \in Tasks :
          /\ tret[i] = None
          /\ \A j \in 1..(i - 1) : tret[j] # None
          /\ LET n == batch[i]
                 d == install_node(n, node_dirs, custom_nodes_dir, venv_created,
                                   clone, req)
             IN  /\ reports' = reports \o NodeReports(i, d.reports)
                 /\ tret' = [tret EXCEPT ![i] = Some(d.ret)]
                 /\ results' = [k \in DOMAIN results \cup {n.name} |->
                                   IF k = n.name THEN d.ret ELSE results[k]]
                 /\ custom_nodes_dir' = d.custom_nodes_dir
                 /\ node_dirs' = d.node_dirs
    /\ UNCHANGED <<batch, bpc>>
    /\ BatchFrame

\* After the loop: the report of 100 and the return of results.
InstallMultipleReturn ==
    /\ component = "install_batch"
    /\ bpc = "running"
    /\ \A i \in Tasks : tret[i] # None
    /\ reports' = Append(reports, Report(100, "done"))
    /\ bpc' = "returned"
    /\ UNCHANGED <<batch, tret, results, custom_nodes_dir, node_dirs>>
    /\ BatchFrame

NextBatch ==
    \/ \E b \in NodeBatches : InstallMultiple(b)
    \/ \E clone \in CloneOutcomes, req \in ReqOutcomes : InstallNext(clone, req)
    \/ InstallMultipleReturn

InitBatch ==
    /\ component = "install_batch"
    /\ ApiStart
    /\ PoolIdle
    /\ TabIdle
    /\ ExecStart(TRUE)
    /\ ClientStart(TRUE)
    /\ ModelsStart(TRUE, TRUE)
    /\ OpStart
    /\ \E cnd \in BOOLEAN, venv \in BOOLEAN : NodesStart(cnd, venv)
    /\ RuntimesIdle

\* ------------------------------------------- InstallTab: Purge
\* What is not the install tab's.
TabFrame ==
    UNCHANGED <<execVars, clientVars, apiVars, poolVars, installVars, component>>

\* MainWindow.run_async(func, on_complete): func is handed to a worker
\* thread and run_async returns; the worker starts when it is scheduled.
run_async == "scheduled"

\* The Purge button: _purge_comfyui up to its first dialog.  Nothing to
\* purge ends it; a running server brings the "Server Running" question.
PurgeClicked ==
    /\ component = "install_tab"
    /\ tab_pc = "idle"
    /\ purge_worker \in {"none", "done"}
    /\ IF ~comfy_installed
       THEN UNCHANGED <<tab_pc, purge_req>>
       ELSE /\ tab_pc' = IF server_running THEN "ask_stop" ELSE "confirm"
            /\ purge_req' = Some(server_running)
    /\ UNCHANGED <<comfy_installed, server_running, stop_worker, purge_worker,
                   purge_saw>>
    /\ TabFrame

\* "Stop it and purge?": no returns; yes calls _stop_server, which hands
\* do_stop to run_async and returns, and then time.sleep(2) begins.
AnswerStop(yes) ==
    /\ component = "install_tab"
    /\ tab_pc = "ask_stop"
    /\ IF yes
       THEN /\ stop_worker' = run_async
            /\ tab_pc' = "sleep"
       ELSE /\ tab_pc' = "idle"
            /\ UNCHANGED stop_worker
    /\ UNCHANGED <<comfy_installed, server_running, purge_worker, purge_req,
                   purge_saw>>
    /\ TabFrame

\* time.sleep(2) is over: the "Confirm Purge" question.
SleepOver ==
    /\ component = "install_tab"
    /\ tab_pc = "sleep"
    /\ tab_pc' = "confirm"
    /\ UNCHANGED <<comfy_installed, server_running, stop_worker, purge_worker,
                   purge_req, purge_saw>>
    /\ TabFrame

\* "Continue?": no returns; yes hands do_purge to run_async and returns.
AnswerConfirm(yes) ==
    /\ component = "install_tab"
    /\ tab_pc = "confirm"
    /\ purge_worker' = IF yes THEN run_async ELSE purge_worker
    /\ tab_pc' = "idle"
    /\ UNCHANGED <<comfy_installed, server_running, stop_worker, purge_req,
                   purge_saw>>
    /\ TabFrame

\* The worker of do_stop calls ServerManager.stop_server ...
StopBegins ==
    /\ component = "install_tab"
    /\ stop_worker = "scheduled"
    /\ stop_worker' = "running"
    /\ UNCHANGED <<tab_pc, comfy_installed, server_running, purge_worker,
                   purge_req, purge_saw>>
    /\ TabFrame

\* ... which returns True with the process gone, or False with it alive.
StopCompletes(success) ==
    /\ component = "install_tab"
    /\ stop_worker = "running"
    /\ stop_worker' = IF success THEN "succeeded" ELSE "failed"
    /\ server_running' = IF success THEN FALSE ELSE server_running
    /\ UNCHANGED <<tab_pc, comfy_installed, purge_worker, purge_req, purge_saw>>
    /\ TabFrame

\* The worker of do_purge calls ComfyInstaller.purge_comfyui: the purge
\* starts, in whatever state the server and the stop are.
PurgeBegins ==
    /\ component = "install_tab"
    /\ purge_worker = "scheduled"
    /\ purge_worker' = "running"
    /\ purge_saw' = Some([server_running |-> server_running,
                          stop_worker |-> stop_worker])
    /\ UNCHANGED <<tab_pc, comfy_installed, server_running, stop_worker,
                   purge_req>>
    /\ TabFrame

\* purge_comfyui returns True with the installation deleted, or False.
PurgeCompletes(success) ==
    /\ component = "install_tab"
    /\ purge_worker = "running"
    /\ purge_worker' = "done"
    /\ comfy_installed' = IF success THEN FALSE ELSE comfy_installed
    /\ UNCHANGED <<tab_pc, server_running, stop_worker, purge_req, purge_saw>>
    /\ TabFrame

\* The server process ends by itself.
ServerExits ==
    /\ component = "install_tab"
    /\ server_running
    /\ server_running' = FALSE
    /\ UNCHANGED <<tab_pc, comfy_installed, stop_worker, purge_worker,
                   purge_req, purge_saw>>
    /\ TabFrame

NextTab ==
    \/ PurgeClicked
    \/ \E yes \in BOOLEAN : AnswerStop(yes)
    \/ SleepOver
    \/ \E yes \in BOOLEAN : AnswerConfirm(yes)
    \/ StopBegins
    \/ \E success \in BOOLEAN : StopCompletes(success)
    \/ PurgeBegins
    \/ \E success \in BOOLEAN : PurgeCompletes(success)
    \/ ServerExits

\* An install tab after construction, ComfyUI installed or not, its server
\* running or not.
InitTab ==
    /\ component = "install_tab"
    /\ ApiStart
    /\ PoolIdle
    /\ ExecStart(TRUE)
    /\ ClientStart(TRUE)
    /\ InstallStart
    /\ tab_pc = "idle"
    /\ comfy_installed \in BOOLEAN
    /\ server_running \in BOOLEAN
    /\ stop_worker = "none"
    /\ purge_worker = "none"
    /\ purge_req = None
    /\ purge_saw = None

\* execute_workflow and wait_for_prompt on their own, the polling thread
\* being scheduled as long as it has a step to take.
NextWait == NextWorkflow \/ NextPoll \/ NextServer
WaitSpec == InitWorkflow /\ [][NextWait]_vars /\ WF_vars(NextPoll)

Init ==
    \/ InitExec \/ InitClient \/ InitModels \/ InitNodes \/ InitRuntimes
    \/ InitWorkflow \/ InitEvents \/ InitPool \/ InitBatch
    \/ InitBatchExec \/ InitTab
Next ==
    \/ NextExec \/ NextPoll \/ NextServer \/ NextWorkflow \/ NextEvents
    \/ NextPool \/ NextBatch \/ NextBatchExec \/ NextTab
    \/ NextClient \/ NextModels \/ NextNodes \/ NextRuntimes
Spec == Init /\ [][Next]_vars

\* ================================================================ claims
Returned == component = "executor" /\ pc = "done" /\ ~IsNone(result)

\* C1: execute never propagates an exception: whatever queue_prompt, the
\* wait and the progress callback do, the caller gets an ExecutionResult,
\* and when the queueing, the wait or the execution failed it has
\* success=False and an error.  (An exception of the callback is swallowed
\* by _update_progress and is not a failure of the execution.)
C1_ExecuteNeverRaises ==
    (component = "executor" /\ pc = "done") =>
        /\ ~IsNone(result)
        /\ ~Get(result).raised
        /\ failure # "none" =>
              (~Get(result).success /\ ~IsNone(Get(result).error))

\* C1 witness: the server was unreachable while the callback raises, and
\* execute returned a failed result.
C1_Witness ==
    /\ Returned
    /\ on_progress = "raises"
    /\ failure = "queue"
    /\ Get(result).error = Some("ConnectionError")
    /\ ~Get(result).success

\* The images of all output nodes of an entry, as a set.
AllImages(entry) ==
    {entry.outputs[i].images[j] :
        <<i, j>> \in {ij \in (1..Len(entry.outputs)) \X (1..3) :
                        /\ entry.outputs[ij[1]].has_images
                        /\ ij[2] <= Len(entry.outputs[ij[1]].images)}}

SeqRange(q) == {q[i] : i \in 1..Len(q)}

\* C2: success=True only with a history entry of the queued prompt whose
\* status_str is not "error"; no prompt_id, node_errors, no entry and an
\* error status give success=False; on success outputs and images are the
\* entry's outputs and the images of all its output nodes.
C2_SuccessOnlyWithHistory ==
    Returned =>
        /\ Get(result).success =>
              /\ Get(result).prompt_id = PromptIdOf(runs)
              /\ ~IsNone(history[Get(result).prompt_id])
              /\ LET entry == Get(history[Get(result).prompt_id])
                 IN  /\ entry.status_str # "error"
                     /\ Get(result).outputs = entry.outputs
                     /\ SeqRange(Get(result).images) = AllImages(entry)
                     /\ Len(Get(result).images) = Cardinality(AllImages(entry))
        /\ (queueCalls = 1 /\ failure # "queue" /\ IsNone(hist))
              => ~Get(result).success
        /\ (~IsNone(response) /\ Get(response).prompt_id = "")
              => ~Get(result).success
        /\ (~IsNone(response) /\ Get(response).node_errors)
              => ~Get(result).success
        /\ (~IsNone(hist) /\ Get(hist).status_str = "error")
              => ~Get(result).success

\* C2 witness: a successful execute whose entry has images on two nodes.
C2_Witness ==
    /\ Returned
    /\ Get(result).success
    /\ Get(result).images = <<"a.png", "b.png", "c.png">>

\* C3 (as claimed): the failure "Execution timed out" is returned only when
\* the full timeout has elapsed without a history entry.
C3_TimedOutOnlyAfterTimeout ==
    (Returned /\ Get(result).error = Some("Execution timed out")) =>
        (elapsed >= timeout /\ IsNone(hist))

\* A listener thread that exists and has not ended.
Alive(t) == threads[t] \in {"started", "app", "connected"}

\* C4 (as claimed): at most one listener at any time, and none connected
\* once execute (so disconnect_websocket) has returned.
C4_SingleListener ==
    component = "executor" =>
        /\ Cardinality({t \in Threads : Alive(t)}) <= 1
        /\ pc = "done" => \A t \in Threads : threads[t] # "connected"

\* C5 (as claimed): every ComfyAPI operation answers a failed HTTP request
\* by returning a boolean or None instead of raising.
C5_FailedRequestReturns ==
    (component = "client" /\ ~IsNone(api_out) /\ REQUESTS_AVAILABLE
       /\ HttpFailed(Get(api_call).http)) =>
        /\ Get(api_out).kind = "returns"
        /\ Get(api_out).value \in {"None", "True", "False"}

\* C5 (amended): on a failed HTTP request is_available and the _delete-based
\* delete_userdata return False; every operation that sends its request
\* through _get or _post raises ConnectionError; view_image and the other
\* operations that call requests directly let its exception propagate.
C5_FailedRequestHandling ==
    (component = "client" /\ ~IsNone(api_out) /\ REQUESTS_AVAILABLE
       /\ HttpFailed(Get(api_call).http)) =>
        LET o == Get(api_call).op
        IN  /\ o \in DeleteOps \cup {"is_available"} =>
                  Get(api_out) = Returns("False")
            /\ o \in GetOps \cup PostOps =>
                  Get(api_out) = Raises("ConnectionError")
            /\ o \in DirectOps =>
                  Get(api_out) = Raises("RequestException")

\* C5 witness: a timed-out GET /history/{id} came back as ConnectionError.
C5_Witness ==
    /\ component = "client"
    /\ api_call = Some([op |-> "get_history_item", http |-> "timeout"])
    /\ api_out = Some(Raises("ConnectionError"))

\* The operation named n of the installer part c has returned.
OpReturned(c, n) ==
    component = c /\ opc = "returned" /\ ~IsNone(op) /\ Get(op).name = n

\* C6: the file exists after download: when download_model returns True
\* the model's file is at models_dir/folder under its name or its flattened
\* name, for Hugging Face and direct sources alike, and when no file is
\* there on return it returns False.
C6_FileExistsAfterDownload ==
    OpReturned("models", "download_model") =>
        LET m == ModelNamed(Get(op).arg)
            there == Exists(files, ModelPath(m)) \/ Exists(files, FlatPath(m))
        IN  /\ ret \in {"True", "False"}
            /\ ret = "True" => there
            /\ ~there => ret = "False"

\* C6 witness: the Hugging Face download of a nested filename returned True
\* with the file flattened into models_dir/vae.
C6_Witness ==
    /\ OpReturned("models", "download_model")
    /\ Get(op).arg = HfModel.name
    /\ ret = "True"
    /\ attempts.download = 1
    /\ files[FlatPath(HfModel)] = "complete"
    /\ files[ModelPath(HfModel)] = "absent"

\* C7: get_model_status says 'installed' only for a model whose file is
\* completely downloaded: never for one whose direct download is in
\* progress or broke off part-way.
C7_InstalledOnlyIfComplete ==
    component = "models" =>
        \A m \in Models :
            get_model_status(files, m) = "installed" =>
                \/ files[ModelPath(m)] = "complete"
                \/ files[FlatPath(m)] = "complete"

\* C8: clone-or-skip is idempotent: install_node called while
\* custom_nodes/<repo name> exists, and download_model called while
\* check_model_exists is true, run nothing, report 'already installed' /
\* 'already exists' at 100 once and return True; and repeating a call that
\* returned True changes nothing on disk.
C8_CloneOrSkipIdempotent ==
    [][ /\ (component = "nodes" /\ Get(op').name = "install_node") =>
             \A n \in NodeInfos :
                (Get(op').arg = n.name /\ node_dirs[repo_name(n.repo)] # "absent") =>
                    /\ reports' = <<Report(100, "exists")>>
                    /\ ret' = "True"
                    /\ attempts' = NoAttempts
                    /\ node_dirs' = node_dirs
                    /\ custom_nodes_dir' = custom_nodes_dir
        /\ (component = "models" /\ opc \in {"idle", "returned"}) =>
             (check_model_exists(files, ModelNamed(Get(op').arg)) =>
                    /\ reports' = <<Report(100, "exists")>>
                    /\ ret' = "True"
                    /\ opc' = "returned"
                    /\ attempts' = NoAttempts
                    /\ files' = files)
        /\ (component \in {"nodes", "models"} /\ opc = "returned"
              /\ ret = "True" /\ op' = op
              /\ Get(op).name \in {"install_node", "download_model"}) =>
                    /\ files' = files
                    /\ node_dirs' = node_dirs
                    /\ ret' = "True"
      ]_vars

\* C8 witness: install_node of an installed node skipped the clone.
C8_Witness ==
    /\ OpReturned("nodes", "install_node")
    /\ Get(op).arg = ManagerNode.name
    /\ node_dirs[repo_name(ManagerNode.repo)] # "absent"
    /\ reports = <<Report(100, "exists")>>
    /\ ret = "True"
    /\ attempts = NoAttempts

\* The positions of the error reports in rs.
Errors(rs) == {i \in 1..Len(rs) : rs[i][2] = "error"}

\* C9: report once: an install_node, update_node, remove_node,
\* download_model or download_and_setup that fails passes exactly one error
\* report to the callback, as its last report, and returns False; no success
\* report follows an error report.
C9_ReportOnce ==
    (component \in {"models", "nodes", "runtimes"} /\ opc = "returned") =>
        /\ ret # "True" =>
              /\ ret = "False"
              /\ Errors(reports) = {Len(reports)}
              /\ reports # <<>>
        /\ \A i \in Errors(reports) :
              \A j \in (i + 1)..Len(reports) :
                  reports[j][2] # "done" /\ reports[j][1] # 100

is_installed(manager, p) ==
    IF manager = "GitManager" THEN GitManager_is_installed(p)
    ELSE IF manager = "FfmpegManager" THEN FfmpegManager_is_installed(p)
    ELSE PythonManager_is_installed(p)

\* C13: download_and_setup returns True only if the setup is complete:
\* when it returns True the manager's is_installed is true, whatever the
\* archive contained.
C13_TrueOnlyIfInstalled ==
    (OpReturned("runtimes", "download_and_setup") /\ ret = "True") =>
        is_installed(Get(op).arg, portable)

\* C18: remove_node and update_node with a name that matches no directory
\* report 'not found' once, return False and leave the disk alone, also
\* when custom_nodes does not exist; they do not raise.
C18_NotFoundReported ==
    [][ (component = "nodes"
           /\ Get(op').name \in {"remove_node", "update_node"}
           /\ FindNode(node_dirs, Get(op').arg) = {}) =>
              /\ reports' = <<Report(0, "error")>>
              /\ ret' = "False"
              /\ node_dirs' = node_dirs
              /\ custom_nodes_dir' = custom_nodes_dir
      ]_vars

\* C19: progress is linear within one setup: in a download_and_setup that
\* returned True the percentages never decrease, lie in 0..100, those of
\* the download lie in the band of the manager and the last one is 100.
C19_LinearProgress ==
    (OpReturned("runtimes", "download_and_setup") /\ ret = "True") =>
        /\ \A i \in 1..Len(reports) : reports[i][1] \in 0..100
        /\ \A i \in 1..(Len(reports) - 1) : reports[i][1] <= reports[i + 1][1]
        /\ \A i \in 1..Len(reports) :
              reports[i][2] = "download" =>
                  reports[i][1] \in DownloadBand(Get(op).arg)
        /\ reports # <<>>
        /\ reports[Len(reports)][1] = 100

\* C19 witness: PythonManager downloaded the archive in chunks, configured
\* it, bootstrapped pip and reported 100.
C19_Witness ==
    /\ OpReturned("runtimes", "download_and_setup")
    /\ Get(op).arg = "PythonManager"
    /\ ret = "True"
    /\ attempts.download = 1
    /\ attempts.get_pip = 1
    /\ \E i \in 1..Len(reports) : reports[i] = Report(50, "download")
    /\ Len(reports) >= 9

\* The values the comment of ExecutionProgress.status documents.
DocumentedStatuses == {"pending", "running", "completed", "failed", "cancelled"}

\* C17: the status handed to the progress callback is always one of the
\* documented values pending, running, completed, failed, cancelled.
C17_DocumentedStatus ==
    (component = "executor" /\ on_progress # "none") =>
        progress.status \in DocumentedStatuses

\* The positions inside wait_for_prompt.
PollPcs == {"poll_check", "poll_get", "poll_queue", "poll_get2"}

\* wait_for_prompt is running / has just returned to its caller.
Polling == component \in {"executor", "workflow"} /\ pc \in PollPcs
PollReturned ==
    /\ component \in {"executor", "workflow"}
    /\ pc \in {"after_wait", "ew_after_wait"}
    /\ ~use_websocket

\* C14: wait_for_prompt terminates; what it returns is None only after the
\* timeout has elapsed, else the history entry recorded for the given
\* prompt id, never that of another prompt; and a lookup that finds the
\* entry returns it at once.
C14_WaitForPrompt ==
    /\ [](PollReturned =>
            /\ IsNone(hist) => elapsed >= timeout
            /\ ~IsNone(hist) =>
                  /\ prompt_id \in DOMAIN history
                  /\ prompt_id # ForeignPrompt
                  /\ hist = history[prompt_id])
    /\ [][ (/\ Polling
            /\ pc \in {"poll_get", "poll_get2"}
            /\ pc' # pc
            /\ failure' = failure
            /\ prompt_id \in DOMAIN history
            /\ ~IsNone(history[prompt_id])) =>
               (hist' = history[prompt_id] /\ pc' \notin PollPcs) ]_vars
    /\ (Polling ~> ~Polling)

\* C14 witness: the entry was found by the lookup that follows a sleep.
C14_Witness ==
    /\ component = "workflow"
    /\ pc = "ew_after_wait"
    /\ hist = Some(EntryOk)
    /\ elapsed > 0

\* execute_workflow has returned or raised.
EwDone == component = "workflow" /\ pc = "done" /\ ~IsNone(result)

Registered(cbs, t) == IF t \in DOMAIN cbs THEN cbs[t] ELSE <<>>

\* C16: after off(event_type, callback) has returned the callback is no
\* longer registered for (invoked by) that type; off(event_type) removes
\* every callback of the type; neither changes the callbacks of other
\* types; a message of type t invokes the connection's handler and then
\* exactly the callbacks registered for t, in registration order.
C16_OnOff ==
    /\ [](component = "events" /\ ~IsNone(event) =>
            LET ev == Get(event)
                now == Registered(_ws_callbacks, ev.type)
            IN  /\ (ev.kind = "off" /\ ~ev.raised) =>
                      \A i \in 1..Len(now) : now[i] # ev.callback
                /\ ev.kind = "off_all" => now = <<>>
                /\ ev.kind = "message" => invoked = <<"on_message">> \o now)
    /\ [][ (component = "events" /\ Get(event').kind \in {"off", "off_all"}) =>
              \A u \in EventTypes \ {Get(event').type} :
                  Registered(_ws_callbacks', u) = Registered(_ws_callbacks, u)
         ]_vars


\* download_model called on its own with files f, the request or the
\* Hugging Face download having the outcome env: the files it leaves and
\* the value it returns.
download_model_alone(f, m, env) ==
    LET d == DownloadDispatch(f, m, DL_REQUESTS_AVAILABLE, HF_AVAILABLE)
    IN  IF d = "exists" THEN [files |-> f, ret |-> "True"]
        ELSE IF d \notin {"direct", "huggingface"} \/ env \in {"none", "refused"}
        THEN [files |-> f, ret |-> "False"]
        ELSE IF d = "direct"
        THEN IF env = "broken"
             THEN [files |-> [f EXCEPT ![ModelPath(m)] = "partial"], ret |-> "False"]
             ELSE LET g == [f EXCEPT ![ModelPath(m)] = "complete"]
                  IN  [files |-> g, ret |-> DownloadReturn(g, ModelPath(m))]
        ELSE LET g == HfPlaced([f EXCEPT ![ModelPath(m)] = "complete"], m)
             IN  [files |-> g, ret |-> DownloadReturn(g, FlatPath(m))]

\* The first k downloads of the batch run one after another, each with the
\* outcome its request had: the files left and the values returned.
RECURSIVE OneAfterAnother(_)
OneAfterAnother(k) ==
    IF k = 0
    THEN [files |-> [q \in ModelPaths |-> "absent"], rets |-> <<>>]
    ELSE LET before == OneAfterAnother(k - 1)
             d == download_model_alone(before.files, batch[k], tenv[k])
         IN  [files |-> d.files, rets |-> Append(before.rets, Some(d.ret))]

PoolReturned == component = "pool" /\ bpc = "returned"

\* C11: download_multiple never has more than max_workers download_model
\* calls in progress, returns only after every submitted download has
\* finished, and its result map holds for each requested model the value
\* its own download returned, under its name or, without name, its filename.
C11_BoundedPoolResults ==
    /\ component = "pool" => Cardinality(InProgress) <= max_workers
    /\ PoolReturned =>
          \A i \in Tasks :
              /\ tret[i] # None
              /\ tpc[i] = "collected"
              /\ Key(batch[i]) \in DOMAIN results
              /\ results[Key(batch[i])] = Get(tret[i])

\* C12: whatever the interleaving of the workers, each model's returned
\* value and the final place of every file are those of the downloads run
\* one after another with the same outcomes of their requests.
C12_InterleavingIndependent ==
    PoolReturned =>
        /\ tret = OneAfterAnother(Len(batch)).rets
        /\ files = OneAfterAnother(Len(batch)).files


\* C20: in a batch of install_multiple or download_multiple every overall
\* percentage handed to the caller's callback lies in 0..100 and is not
\* below the one handed over before it.
C20_OverallMonotone ==
    component \in {"pool", "install_batch"} =>
        \A k \in 1..Len(reports) :
            /\ reports[k][1] \in 0..100
            /\ k > 1 => reports[k - 1][1] <= reports[k][1]


\* The k-th prompt of this client has reached the server.
Queued(k) == PromptIdOf(k) \in queue \/ ~IsNone(history[PromptIdOf(k)])

C22_PurgeAfterStop ==
    (component = "install_tab" /\ ~IsNone(purge_saw)) =>
        /\ ~Get(purge_saw).server_running
        /\ Get(purge_req) => Get(purge_saw).stop_worker = "succeeded"

====
